---------------------------- MODULE Spec2Model ----------------------------
(***************************************************************************)
(* A model of the PDF text extractor: the CMap decode loops                *)
(* (cmap.CharcodeBytesToUnicode / CharcodeBytesToCidStr), the text         *)
(* assembly handler of Extractor.ExtractText, and the producer/consumer    *)
(* hand-off of parseText.                                                  *)
(*                                                                         *)
(* Strings are sequences of byte values (0..255); "\n" is <<10>> and       *)
(* "\t" is <<9>>.                                                          *)
(***************************************************************************)
EXTENDS Integers, Sequences, FiniteSets, TLC

VARIABLES
    \* ---- CMap decode loop (extractor.go:80-167)
    cmap,          \* the CMap: [codeMap, codeSpan]
    src,           \* the input byte string
    flag,          \* CharcodeBytesToUnicode's flag argument
    fn,            \* which loop runs: "unicode" or "cid"
    srcI,          \* i
    srcJ,          \* j
    code,          \* the rolling code
    encodingList,  \* CharcodeBytesToUnicode's encodingList
    out,           \* buf of the decode loop
    dpc,           \* position of the loop: "outer", "inner", "done"
    steps,         \* history: one record per finished outer iteration
    \* ---- text-assembly handler (text.go:24-383)
    profile,       \* which operations the stream draws from
    script,        \* a fixed stream to process, or <<>> for any stream
    operations,    \* the operations processed so far, in stream order
    inText,
    xPos,
    yPos,
    preRect,       \* preRect0..preRect3
    rect,          \* rect0..rect3
    font,          \* the name the current font was found under, NoFont for nil
    buf,
    status,        \* "run", "done" (Process returned nil), "err", "panic"
    \* ---- parseText (pdf_extract_text.go:76-165)
    pageList,      \* the pages, each with its Contents entries
    pageI,         \* the producer's i (1-based)
    contentJ,      \* the producer's j (1-based)
    ppc,           \* the producer: "scan", "send", "exit"
    contentStreamChan,  \* the pairs in the channel, oldest first
    closed,        \* close(contentStreamChan) has run
    received,      \* history: the pairs the consumer has received
    textBuffer,
    cpc,           \* the consumer: "recv", "returned"
    ret,           \* what parseText returned: [text, err]
    \* ---- ContentStreamProcessor (unnamed/part_000)
    cspOps,        \* this.operations: the operand of each operation
    handlers,      \* this.handlers, in registration order
    opIndex,       \* the operation Process stands at (1-based)
    entryIndex,    \* the handler entry Process stands at (1-based)
    calls,         \* history: <<operation, entry>> of every handler invoked
    cspStatus,     \* "register", "run", "nil", "err"
    cspErr,        \* the call whose error Process returned
    \* ---- the Encoding dictionary of a font (model/reader.go:251-291)
    baseEncoding,  \* the BaseEncoding name, "" if the dictionary has none
    differences,   \* the Differences array
    diffJ,         \* j (1-based)
    replacements,
    mSimpleEncodingTable,
    writes,        \* history: [pos, slot, val] of every slot replaced
    encStatus,     \* "loop", "done"
    \* ---- the cross-reference loader (core/parser.go)
    xfile,         \* the file: [start, sections], sections by offset
    xrefOffset,
    startXrefPositions,
    backward_compatibility,
    trailerDict,
    getRoot,
    xrefs,         \* parser.xrefs: object number -> XrefObject
    curObjIdx,
    insideSubsection,
    lineIdx,       \* the line or entry of the section being read (1-based)
    parsedAt,      \* history: the offsets at which a section was parsed
    xpc,           \* "seek", "table", "stream", "nil", "err", "loaded", "failed"
    \* ---- PdfReader.traceToObject (model/reader.go:699-723)
    objTable,      \* the objects the parser resolves, by object number
    traceObj,      \* obj, the argument of traceToObjectWrapper
    refList,       \* the references already traversed, as the map keys them
    followed,      \* history: the value of every reference looked up
    traceStatus,   \* "run", "obj", "circular", "err"
    \* ---- the inline-image data scanner (unnamed/part_001:196-255)
    imgData,       \* the bytes after ID
    imgPos,        \* bytes read so far
    imStream,      \* im.stream
    skipBytes,
    imgState,      \* state, 0..3
    imgStatus,     \* "scan", "found", "err"
    \* ---- the stream length check of ParseIndirectObject (core/parser.go:256-293)
    slOffsets,     \* the offsets of parser.xrefs
    slTodo,        \* the entries the range loop has not visited
    nextOffset,
    streamStartOffset,
    streamLength,
    dictLength,    \* the Length entry of the stream dictionary
    slFileLen,
    slStatus,      \* "scan", "stream", "err"
    \* ---- PdfParser.ParseDict (core/parser.go:1127-1191)
    dictTokens,    \* the keys and values between << and >>
    dictI,         \* the token ParseDict stands at (1-based)
    readingKey,
    readingValue,
    keyName,
    pdfDict,       \* dict: the dictionary, key -> value
    dictStatus,    \* "loop", "done", "err"
    \* ---- PdfReader.buildPageList (model/reader.go:728-804)
    pageNodes,     \* the page tree: node -> [type, kids, res]
    bplStack,      \* the calls of buildPageList in progress, innermost last
    traversedPageNodes,
    rdPageList,    \* this.pageList
    rdPageResources,\* this.pageResources, 0 for nil
    parentSet,     \* the Parent entries set, node -> parent
    bplStatus,     \* "run", "nil", "err"
    \* ---- PdfReader.ParseFonts (model/reader.go:569-638)
    fontObjs,      \* the indirect font objects: object number -> kind of font dictionary
    fontPages,     \* pageResources: per page nil, a Font entry that is no dictionary, or its fonts
    fpI,           \* the page index i of ParseFonts
    fpJ,           \* the position in the fonts of page i
    pfFonts,       \* this.mFonts: per font what getFontEncoding and getFontInfo did
    pfByIndexes,   \* the keys of this.mFontsByIndexes
    parseFontsStatus, \* "run", "nil", "err"
    \* ---- PdfParser.traceStreamLength (core/parser.go:121-147)
    lenObjs,       \* the objects a Length entry refers to: object number -> kind
    tslCalls,      \* the Length entries still to be looked up, 0 for a direct integer
    tslStack,      \* the calls of traceStreamLength in progress, innermost last
    streamLengthReferenceLookupInProgress,\* the object numbers whose entry is true
    tslCache,      \* the object numbers whose object is loaded
    tslResults,    \* what each outermost call returned
    tslStatus,     \* "run", "done"
    \* ---- the range loops of CMap.parseNotdefrange, parseCidrange and parseBfrange (extractor/extractor.go:535-552, 639-670, 757-784)
    rngSection,    \* "notdefrange", "cidrange" or "bfrange"
    srcCodeFrom,   \* uint64 as eight bytes, most significant first
    srcCodeTo,
    rngTarget,     \* the third object of the triple: [kind, val]
    rngSc,         \* the loop counter sc, uint64 as eight bytes
    rngI,          \* the offset i added to the target
    rngCodeMap,    \* the entries of cmap.codeMap the loop has written
    rngCount,      \* the assignments the loop has performed
    rngStatus      \* "loop", "done"

cmapVars == <<cmap, src, flag, fn, srcI, srcJ, code, encodingList, out, dpc, steps>>

textVars == <<profile, script, operations, inText, xPos, yPos, preRect, rect,
              font, buf, status>>

docVars == <<pageList, pageI, contentJ, ppc, contentStreamChan, closed, received,
             textBuffer, cpc, ret>>

cspVars == <<cspOps, handlers, opIndex, entryIndex, calls, cspStatus, cspErr>>

\* the variables of the parts added after parseText
encVars == <<baseEncoding, differences, diffJ, replacements, mSimpleEncodingTable,
             writes, encStatus>>

xrefVars == <<xfile, xrefOffset, startXrefPositions, backward_compatibility,
              trailerDict, getRoot, xrefs, curObjIdx, insideSubsection, lineIdx,
              parsedAt, xpc>>

traceVars == <<objTable, traceObj, refList, followed, traceStatus>>

imgVars == <<imgData, imgPos, imStream, skipBytes, imgState, imgStatus>>

slVars == <<slOffsets, slTodo, nextOffset, streamStartOffset, streamLength, dictLength, slFileLen, slStatus>>

dictVars == <<dictTokens, dictI, readingKey, readingValue, keyName, pdfDict, dictStatus>>

bplVars == <<pageNodes, bplStack, traversedPageNodes, rdPageList, rdPageResources, parentSet, bplStatus>>

fontsVars == <<fontObjs, fontPages, fpI, fpJ, pfFonts, pfByIndexes, parseFontsStatus>>

tslVars == <<lenObjs, tslCalls, tslStack, streamLengthReferenceLookupInProgress, tslCache, tslResults, tslStatus>>

rngVars == <<rngSection, srcCodeFrom, srcCodeTo, rngTarget, rngSc, rngI, rngCodeMap, rngCount, rngStatus>>

restVars == <<cspVars, encVars, xrefVars, traceVars, imgVars, slVars, dictVars, bplVars, fontsVars, tslVars, rngVars>>

vars == <<cmapVars, textVars, docVars, restVars>>

-----------------------------------------------------------------------------
(* Generic helpers *)

RECURSIVE Pow2(_)
Pow2(n) == IF n = 0 THEN 1 ELSE 2 * Pow2(n - 1)

RECURSIVE Flatten(_)
Flatten(ss) == IF ss = <<>> THEN <<>> ELSE Head(ss) \o Flatten(Tail(ss))

RECURSIVE SeqSum(_)
SeqSum(s) == IF s = <<>> THEN 0 ELSE Head(s) + SeqSum(Tail(s))

\* Go's s[a:b] on a 0-indexed byte string
Slice(s, a, b) == SubSeq(s, a + 1, b)

\* all sequences over S of length at most n
SeqsUpTo(S, n) == UNION {[1..k -> S] : k \in 0..n}

-----------------------------------------------------------------------------
(* Bounds and inputs of the decode loops *)

MaxSrcLen == 4

\* 0x00, "A", "B"
SrcBytes == {0, 65, 66}

\* longer inputs, on which four unmatched bytes are followed by more input
LongSrcs == { <<66, 66, 66, 66, 65>>, <<66, 66, 66, 66, 66, 65, 66>> }

SrcInputs == SeqsUpTo(SrcBytes, MaxSrcLen) \cup LongSrcs

\* code maps: key (the numeric code) -> target string.  The targets are hex
\* strings, as the cid sections store them ("0041", "42"), and one target
\* that is no hex string ("g").
CodeMapInputs ==
    { <<>>,
      (65 :> <<48, 48, 52, 49>>),
      (65 :> <<52, 50>>) @@ (16706 :> <<48, 48, 52, 49>>),
      (16706 :> <<52, 50>>) @@ (4342338 :> <<52, 49>>),
      (1094795585 :> <<52, 49, 52, 50>>) @@ (66 :> <<103>>),
      (65 :> <<52, 49>>) @@ (66 :> <<52, 50>>) @@ (16962 :> <<52, 49, 52, 49>>) }

\* the byte widths of the codespace ranges of a CMap (len(hexHigh.b))
CodespaceInputs == { <<>>, <<1>>, <<2>>, <<1, 2>>, <<2, 1, 2>>, <<3, 4>>, <<1, 2, 3, 4>> }

\* a predefined 256-entry simple encoding table: every byte stands for itself
PredefinedEncodingTable == [b \in 0..255 |-> b]

\* a font's own simple encoding table: the predefined one, with byte 66
\* patched by a Differences entry to a two-byte value
SimpleEncodingTable == [b \in 0..255 |-> IF b = 66 THEN 49833 ELSE b]

-----------------------------------------------------------------------------
(* The CMap and its decode loops *)

maxLen == 4

\* cmap.codeSpan & int8(math.Pow(2.0, float64(w))) > 0
HasWidthBit(span, w) == (span \div Pow2(w)) % 2 = 1

\* cmap.codeSpan = cmap.codeSpan | int8(math.Pow(2.0, float64(len(hexHigh.b))))
SpanOr(span, w) == IF HasWidthBit(span, w) THEN span ELSE span + Pow2(w)

RECURSIVE parseCodespaceRange(_, _)
parseCodespaceRange(span, widths) ==
    IF widths = <<>> THEN span
    ELSE parseCodespaceRange(SpanOr(span, Head(widths)), Tail(widths))

newCMap(codeMap, widths) ==
    [codeMap |-> codeMap, codeSpan |-> parseCodespaceRange(0, widths)]

CMapInputs == { newCMap(m, ws) : m \in CodeMapInputs, ws \in CodespaceInputs }

\* Utf8CodepointToUtf8: the value's bytes, most significant first
Utf8CodepointToUtf8(c) ==
    IF c < 256 THEN << c >>
    ELSE IF c < 65536 THEN << c \div 256, c % 256 >>
    ELSE IF c < 16777216 THEN << c \div 65536, (c \div 256) % 256, c % 256 >>
    ELSE << c \div 16777216, (c \div 65536) % 256, (c \div 256) % 256, c % 256 >>

\* hex.DecodeString: [ok, val]
HexVal(c) ==
    IF c \in 48..57 THEN c - 48
    ELSE IF c \in 65..70 THEN c - 55
    ELSE IF c \in 97..102 THEN c - 87
    ELSE -1

RECURSIVE HexPairs(_)
HexPairs(s) ==
    IF s = <<>> THEN <<>>
    ELSE << 16 * HexVal(s[1]) + HexVal(s[2]) >> \o HexPairs(Tail(Tail(s)))

HexDecodeString(s) ==
    IF Len(s) % 2 = 1 \/ \E k \in 1..Len(s) : HexVal(s[k]) < 0
    THEN [ok |-> FALSE, val |-> <<>>]
    ELSE [ok |-> TRUE, val |-> HexPairs(s)]

\* code <<= 8; code |= uint64(b)
ShiftIn(c, b) == c * 256 + b

\* a faulty variant of IsHit: the width bit of codeSpan is not consulted
IsHitAnyWidth(cm, c, jj) == c \in DOMAIN cm.codeMap

\* the test of one inner iteration, after the byte at i+j went into the code
IsHit(cm, c, jj) == c \in DOMAIN cm.codeMap /\ HasWidthBit(cm.codeSpan, jj + 1)

\* a faulty variant of IsLast: an unmatched byte ends the iteration at once
IsLastOneByte(s, ii, jj) == TRUE

\* a faulty variant of IsLast: the end of the input is not tested
IsLastNoEnd(s, ii, jj) == jj = maxLen - 1

\* else if j == maxLen-1 || i+j == len(src)-1 { break }
IsLast(s, ii, jj) == jj = maxLen - 1 \/ ii + jj = Len(s) - 1

\* what CharcodeBytesToUnicode writes when an inner iteration breaks
UnicodeEmit(cm, s, ii, jj, c, enc, fl) ==
    IF IsHit(cm, c, jj) THEN cm.codeMap[c] ELSE <<>>

\* what CharcodeBytesToCidStr writes when an inner iteration breaks
CidEmit(cm, s, ii, jj, c) ==
    IF IsHit(cm, c, jj)
    THEN LET d == HexDecodeString(cm.codeMap[c]) IN IF d.ok THEN d.val ELSE <<>>
    ELSE IF ii + jj - 3 > 0 THEN Slice(s, ii + jj - 3, ii + jj + 1)
    ELSE Slice(s, 0, ii + jj + 1)

\* the inner loop run from (i, j, code) to its break: [j, code, hit]
RECURSIVE InnerLoop(_, _, _, _, _)
InnerLoop(cm, s, ii, jj, c) ==
    LET c2 == ShiftIn(c, s[ii + jj + 1]) IN
    IF IsHit(cm, c2, jj) THEN [j |-> jj, code |-> c2, hit |-> TRUE]
    ELSE IF IsLast(s, ii, jj) THEN [j |-> jj, code |-> c2, hit |-> FALSE]
    ELSE InnerLoop(cm, s, ii, jj + 1, c2)

RECURSIVE UnicodeFrom(_, _, _, _, _)
UnicodeFrom(cm, s, enc, fl, ii) ==
    IF ii >= Len(s) THEN <<>>
    ELSE LET r == InnerLoop(cm, s, ii, 0, 0) IN
         UnicodeEmit(cm, s, ii, r.j, r.code, enc, fl)
             \o UnicodeFrom(cm, s, enc, fl, ii + r.j + 1)

CharcodeBytesToUnicode(cm, s, enc, fl) == UnicodeFrom(cm, s, enc, fl, 0)

RECURSIVE CidFrom(_, _, _)
CidFrom(cm, s, ii) ==
    IF ii >= Len(s) THEN <<>>
    ELSE LET r == InnerLoop(cm, s, ii, 0, 0) IN
         CidEmit(cm, s, ii, r.j, r.code) \o CidFrom(cm, s, ii + r.j + 1)

CharcodeBytesToCidStr(cm, s) == CidFrom(cm, s, 0)

-----------------------------------------------------------------------------
(* PDF objects, operations and fonts *)

PdfObjectInteger(n) == [t |-> "Integer", n |-> n, s |-> <<>>, nm |-> "", a |-> <<>>]
PdfObjectFloat(n)   == [t |-> "Float", n |-> n, s |-> <<>>, nm |-> "", a |-> <<>>]
PdfObjectString(s)  == [t |-> "String", n |-> 0, s |-> s, nm |-> "", a |-> <<>>]
PdfObjectName(nm)   == [t |-> "Name", n |-> 0, s |-> <<>>, nm |-> nm, a |-> <<>>]
PdfObjectArray(a)   == [t |-> "Array", n |-> 0, s |-> <<>>, nm |-> "", a |-> a]

ContentStreamOperation(operand, params) == [Operand |-> operand, Params |-> params]

\* core.GetNumberAsFloat: [ok, val]
GetNumberAsFloat(o) ==
    IF o.t \in {"Integer", "Float"} THEN [ok |-> TRUE, val |-> o.n]
    ELSE [ok |-> FALSE, val |-> 0]

\* a nil *cmap.CMap
NilCMap == [codeMap |-> <<>>, codeSpan |-> -1]

\* a nil *model.Font
NoFont == ""

Font(cm, cid, simple, predefined, table) ==
    [mCmap |-> cm, mToCidCmap |-> cid, mPredefinedSimpleEncoding |-> simple,
     mPredefinedCmap |-> predefined, mSimpleEncodingTable |-> table]

\* make([]uint, 0): a font without a simple encoding
NoTable == [b \in {} |-> 0]

\* ToUnicode: <41> -> "a", <4242> -> "y"
ToUnicodeCMap == newCMap((65 :> <<97>>) @@ (16962 :> <<121>>), <<1, 2>>)

\* charcode -> CID: <41> -> "0001", <42> -> "0002"
ToCidCMap == newCMap((65 :> <<48, 48, 48, 49>>) @@ (66 :> <<48, 48, 48, 50>>), <<1>>)

\* CID -> Unicode: <0001> -> U+4E00 in UTF-8, <0002> -> "z"
CidToUnicodeCMap == newCMap((1 :> <<228, 184, 128>>) @@ (2 :> <<122>>), <<2>>)

\* the font table of a page (model.FontsByNames)
PageFonts ==
    [ \* a predefined simple encoding
      F1 |-> Font(NilCMap, NilCMap, TRUE, FALSE, PredefinedEncodingTable),
      \* ToUnicode only
      F2 |-> Font(ToUnicodeCMap, NilCMap, FALSE, FALSE, NoTable),
      \* ToUnicode and an own simple encoding
      F3 |-> Font(ToUnicodeCMap, NilCMap, TRUE, FALSE, SimpleEncodingTable),
      \* a predefined CJK pair
      F4 |-> Font(CidToUnicodeCMap, ToCidCMap, FALSE, TRUE, NoTable),
      \* a CJK pair whose second file failed to load: no encoding in effect
      F5 |-> Font(NilCMap, ToCidCMap, FALSE, FALSE, NoTable),
      \* an own simple encoding (Encoding dictionary with Differences)
      F6 |-> Font(NilCMap, NilCMap, TRUE, FALSE, SimpleEncodingTable) ]

\* the font table of another page: the same names, other fonts
OtherPageFonts ==
    [ F1 |-> Font(ToUnicodeCMap, NilCMap, FALSE, FALSE, NoTable),
      F2 |-> Font(NilCMap, NilCMap, TRUE, FALSE, PredefinedEncodingTable) ]

-----------------------------------------------------------------------------
(* The text-assembly handler of Extractor.ExtractText *)

\* xPos, yPos := float64(-1), float64(-1); the rectangles start at -1 too
InitialTextState ==
    [inText |-> FALSE, xPos |-> -1, yPos |-> -1,
     preRect |-> <<-1, -1, -1, -1>>, rect |-> <<-1, -1, -1, -1>>,
     font |-> NoFont, buf |-> <<>>, status |-> "run"]

ReturnError(st) == [st EXCEPT !.status = "err"]

RuntimePanic(st) == [st EXCEPT !.status = "panic"]

WriteString(st, s) == [st EXCEPT !.buf = @ \o s]

\* rect0 != preRect0 || rect1 != preRect1 || rect2 != preRect2 || rect3 != preRect3
RectDiffers(st) == \E k \in 1..4 : st.rect[k] # st.preRect[k]

NewlineIfRectDiffers(st) == IF RectDiffers(st) THEN WriteString(st, <<10>>) ELSE st

RECURSIVE ReAssign(_, _, _)
ReAssign(rc, params, k) ==
    IF k > 4 THEN rc
    ELSE LET r == GetNumberAsFloat(params[k]) IN
         IF r.ok THEN ReAssign([rc EXCEPT ![k] = r.val], params, k + 1)
         ELSE [rc EXCEPT ![k] = r.val]

\* a faulty variant of Handle_re: the rectangle is taken inside a text object too
Handle_re_InText(st, op, f) ==
    IF Len(op.Params) # 4 THEN ReturnError(st)
    ELSE [st EXCEPT !.rect = ReAssign(st.rect, op.Params, 1)]

Handle_re(st, op, f) ==
    IF st.inText THEN st
    ELSE IF Len(op.Params) # 4 THEN ReturnError(st)
    ELSE [st EXCEPT !.rect = ReAssign(st.rect, op.Params, 1)]

Handle_BT(st, op, f) == [st EXCEPT !.inText = TRUE]

\* a faulty variant of Handle_ET: the end of a text object also ends the line
Handle_ET_Newline(st, op, f) ==
    [st EXCEPT !.inText = FALSE, !.preRect = st.rect, !.buf = @ \o <<10>>]

Handle_ET(st, op, f) == [st EXCEPT !.inText = FALSE, !.preRect = st.rect]

\* a faulty variant of Handle_Tf: a name that is no key of the font table
\* clears the font and goes on
Handle_Tf_NoError(st, op, f) ==
    IF ~st.inText THEN st
    ELSE IF Len(op.Params) # 2 THEN ReturnError(st)
    ELSE IF op.Params[1].t # "Name" THEN ReturnError(st)
    ELSE IF op.Params[1].nm \in DOMAIN f
         THEN [st EXCEPT !.font = op.Params[1].nm]
         ELSE [st EXCEPT !.font = NoFont]

Handle_Tf(st, op, f) ==
    IF ~st.inText THEN st
    ELSE IF Len(op.Params) # 2 THEN ReturnError(st)
    ELSE IF op.Params[1].t # "Name" THEN ReturnError(st)
    ELSE IF op.Params[1].nm \in DOMAIN f
         THEN [st EXCEPT !.font = op.Params[1].nm]
         ELSE ReturnError([st EXCEPT !.font = NoFont])

Handle_Tstar(st, op, f) ==
    IF ~st.inText THEN st ELSE NewlineIfRectDiffers(st)

\* codemap, cidCodemap: set from the font by Tf, nil without a font
Codemap(st, f) == IF st.font = NoFont THEN NilCMap ELSE f[st.font].mCmap

CidCodemap(st, f) == IF st.font = NoFont THEN NilCMap ELSE f[st.font].mToCidCmap

SimpleEncode(table, bytes) ==
    Flatten([k \in 1..Len(bytes) |-> Utf8CodepointToUtf8(table[bytes[k]])])

\* a faulty variant of ShowQuote: the charcode -> CID step is left out
ShowQuoteNoCid(st, f, param) ==
    IF Codemap(st, f) # NilCMap
    THEN IF f[st.font].mPredefinedSimpleEncoding
         THEN CharcodeBytesToUnicode(Codemap(st, f), param,
                                     f[st.font].mSimpleEncodingTable, TRUE)
         ELSE CharcodeBytesToUnicode(Codemap(st, f), param, <<>>, FALSE)
    ELSE IF st.font # NoFont /\ f[st.font].mPredefinedSimpleEncoding
         THEN SimpleEncode(f[st.font].mSimpleEncodingTable, param)
         ELSE param

\* text.go:140-161, what ' writes for its string
ShowQuote(st, f, param) ==
    LET p == IF st.font # NoFont /\ f[st.font].mPredefinedCmap /\ CidCodemap(st, f) # NilCMap
             THEN CharcodeBytesToCidStr(CidCodemap(st, f), param)
             ELSE param
    IN  IF Codemap(st, f) # NilCMap
        THEN IF f[st.font].mPredefinedSimpleEncoding
             THEN CharcodeBytesToUnicode(Codemap(st, f), p,
                                         f[st.font].mSimpleEncodingTable, TRUE)
             ELSE CharcodeBytesToUnicode(Codemap(st, f), p, <<>>, FALSE)
        ELSE IF st.font # NoFont /\ f[st.font].mPredefinedSimpleEncoding
             THEN SimpleEncode(f[st.font].mSimpleEncodingTable, p)
             ELSE p

\* text.go:179-200, what " writes for its string
ShowDQuote(st, f, param) ==
    LET p == IF st.font # NoFont /\ f[st.font].mPredefinedCmap /\ CidCodemap(st, f) # NilCMap
             THEN CharcodeBytesToCidStr(CidCodemap(st, f), param)
             ELSE param
    IN  IF Codemap(st, f) # NilCMap
        THEN IF f[st.font].mPredefinedSimpleEncoding
             THEN CharcodeBytesToUnicode(Codemap(st, f), p,
                                         f[st.font].mSimpleEncodingTable, TRUE)
             ELSE CharcodeBytesToUnicode(Codemap(st, f), p, <<>>, FALSE)
        ELSE IF st.font # NoFont /\ f[st.font].mPredefinedSimpleEncoding
             THEN SimpleEncode(f[st.font].mSimpleEncodingTable, p)
             ELSE p

\* text.go:294-320, what TJ writes for one string element
ShowTJ(st, f, v) ==
    LET p == IF st.font # NoFont /\ f[st.font].mPredefinedCmap /\ CidCodemap(st, f) # NilCMap
             THEN CharcodeBytesToCidStr(CidCodemap(st, f), v)
             ELSE v
    IN  IF Codemap(st, f) # NilCMap
        THEN IF f[st.font].mPredefinedSimpleEncoding
             THEN CharcodeBytesToUnicode(Codemap(st, f), p,
                                         f[st.font].mSimpleEncodingTable, TRUE)
             ELSE CharcodeBytesToUnicode(Codemap(st, f), p, <<>>, FALSE)
        ELSE IF st.font # NoFont /\ f[st.font].mPredefinedSimpleEncoding
             THEN SimpleEncode(f[st.font].mSimpleEncodingTable, p)
             ELSE p

\* text.go:344-368, what Tj writes for its string
ShowTj(st, f, param) ==
    LET p == IF st.font # NoFont /\ f[st.font].mPredefinedCmap /\ CidCodemap(st, f) # NilCMap
             THEN CharcodeBytesToCidStr(CidCodemap(st, f), param)
             ELSE param
    IN  IF Codemap(st, f) # NilCMap
        THEN IF f[st.font].mPredefinedSimpleEncoding
             THEN CharcodeBytesToUnicode(Codemap(st, f), p,
                                         f[st.font].mSimpleEncodingTable, TRUE)
             ELSE CharcodeBytesToUnicode(Codemap(st, f), p, <<>>, FALSE)
        ELSE IF st.font # NoFont /\ f[st.font].mPredefinedSimpleEncoding
             THEN SimpleEncode(f[st.font].mSimpleEncodingTable, p)
             ELSE p

Handle_Quote(st, op, f) ==
    IF ~st.inText THEN st
    ELSE LET s1 == NewlineIfRectDiffers(st) IN
         IF Len(op.Params) < 1 THEN s1
         ELSE IF op.Params[1].t # "String" THEN ReturnError(s1)
         ELSE WriteString(s1, ShowQuote(st, f, op.Params[1].s))

\* the operand count is tested against 1, the operand read is op.Params[2]
Handle_DQuote(st, op, f) ==
    IF ~st.inText THEN st
    ELSE LET s1 == NewlineIfRectDiffers(st) IN
         IF Len(op.Params) < 1 THEN s1
         ELSE IF Len(op.Params) < 3 THEN RuntimePanic(s1)
         ELSE IF op.Params[3].t # "String" THEN ReturnError(s1)
         ELSE WriteString(s1, ShowDQuote(st, f, op.Params[3].s))

Handle_Td(st, op, f) ==
    IF ~st.inText THEN st
    ELSE IF Len(op.Params) # 2 THEN st
    ELSE IF ~GetNumberAsFloat(op.Params[1]).ok THEN st
    ELSE IF ~GetNumberAsFloat(op.Params[2]).ok THEN st
    ELSE IF GetNumberAsFloat(op.Params[2]).val < 0 THEN NewlineIfRectDiffers(st)
    ELSE st

IsNumber(o) == o.t \in {"Float", "Integer"}

\* a faulty variant of TmXCheck: the tab is written whenever x changes
TmXCheckAnyChange(st, x) ==
    IF st.xPos = -1 THEN [st EXCEPT !.xPos = x]
    ELSE IF st.xPos # x THEN [WriteString(st, <<9>>) EXCEPT !.xPos = x]
    ELSE st

\* text.go:273-278
TmXCheck(st, x) ==
    IF st.xPos = -1 THEN [st EXCEPT !.xPos = x]
    ELSE IF st.xPos < x THEN [WriteString(st, <<9>>) EXCEPT !.xPos = x]
    ELSE st

\* a faulty variant of TmYDrop: the y branch is entered only when the
\* rectangle changed as well
TmYDropRectDiffers(st, y) == st.yPos # -1 /\ st.yPos > y /\ RectDiffers(st)

\* text.go:260-271: TRUE when the handler returns from inside the y branch
TmYDrop(st, y) == st.yPos # -1 /\ st.yPos > y

Handle_Tm(st, op, f) ==
    IF ~st.inText THEN st
    ELSE IF Len(op.Params) # 6 THEN ReturnError(st)
    ELSE IF ~IsNumber(op.Params[5]) THEN st
    ELSE IF ~IsNumber(op.Params[6]) THEN st
    ELSE LET x == op.Params[5].n
             y == op.Params[6].n
         IN  IF TmYDrop(st, y)
             THEN [NewlineIfRectDiffers(st) EXCEPT !.xPos = x, !.yPos = y]
             ELSE TmXCheck([st EXCEPT !.yPos = y], x)

RECURSIVE ShowArray(_, _, _)
ShowArray(st, f, arr) ==
    IF arr = <<>> THEN <<>>
    ELSE (IF Head(arr).t = "String" THEN ShowTJ(st, f, Head(arr).s) ELSE <<>>)
             \o ShowArray(st, f, Tail(arr))

Handle_TJ(st, op, f) ==
    IF ~st.inText THEN st
    ELSE IF Len(op.Params) < 1 THEN st
    ELSE IF op.Params[1].t # "Array" THEN ReturnError(st)
    ELSE WriteString(st, ShowArray(st, f, op.Params[1].a))

Handle_Tj(st, op, f) ==
    IF ~st.inText THEN st
    ELSE IF Len(op.Params) < 1 THEN st
    ELSE IF op.Params[1].t # "String" THEN ReturnError(st)
    ELSE WriteString(st, ShowTj(st, f, op.Params[1].s))

\* the handler: switch operand { ... } ; return nil
Handler(st, op, f) ==
    CASE op.Operand = "re" -> Handle_re(st, op, f)
      [] op.Operand = "BT" -> Handle_BT(st, op, f)
      [] op.Operand = "ET" -> Handle_ET(st, op, f)
      [] op.Operand = "Tf" -> Handle_Tf(st, op, f)
      [] op.Operand = "T*" -> Handle_Tstar(st, op, f)
      [] op.Operand = "'" -> Handle_Quote(st, op, f)
      [] op.Operand = "\"" -> Handle_DQuote(st, op, f)
      [] op.Operand \in {"Td", "TD"} -> Handle_Td(st, op, f)
      [] op.Operand = "Tm" -> Handle_Tm(st, op, f)
      [] op.Operand = "TJ" -> Handle_TJ(st, op, f)
      [] op.Operand = "Tj" -> Handle_Tj(st, op, f)
      [] OTHER -> st

\* ContentStreamProcessor.Process with the one handler registered for all
\* operations: the first error ends it
RECURSIVE Process(_, _, _)
Process(st, ops, f) ==
    IF ops = <<>> THEN [st EXCEPT !.status = "done"]
    ELSE LET s2 == Handler(st, Head(ops), f) IN
         IF s2.status # "run" THEN s2 ELSE Process(s2, Tail(ops), f)

\* Extractor.ExtractText on parsed operations: [text, err]
ExtractText(ops, f) ==
    LET r == Process(InitialTextState, ops, f) IN
    [text |-> r.buf, err |-> r.status # "done", panic |-> r.status = "panic"]

-----------------------------------------------------------------------------
(* The decode loops as a state machine: one action per loop step *)

\* the variables of the decode loops while another part of the program runs
CMapIdle ==
    /\ cmap = NilCMap /\ src = <<>> /\ flag = FALSE /\ fn = "none"
    /\ srcI = 0 /\ srcJ = 0 /\ code = 0 /\ encodingList = <<>>
    /\ out = <<>> /\ dpc = "idle" /\ steps = <<>>

\* the variables of the handler while another part of the program runs
TextIdle ==
    /\ profile = "none" /\ script = <<>> /\ operations = <<>>
    /\ inText = FALSE /\ xPos = -1 /\ yPos = -1
    /\ preRect = <<-1, -1, -1, -1>> /\ rect = <<-1, -1, -1, -1>>
    /\ font = NoFont /\ buf = <<>> /\ status = "idle"

\* the variables of parseText while another part of the program runs
DocIdle ==
    /\ pageList = <<>> /\ pageI = 1 /\ contentJ = 1 /\ ppc = "idle"
    /\ contentStreamChan = <<>> /\ closed = FALSE /\ received = <<>>
    /\ textBuffer = <<>> /\ cpc = "idle" /\ ret = [text |-> <<>>, err |-> FALSE]

\* the variables of the processor while another part of the program runs
CspIdle ==
    /\ cspOps = <<>> /\ handlers = <<>> /\ opIndex = 1 /\ entryIndex = 1
    /\ calls = <<>> /\ cspStatus = "idle" /\ cspErr = <<>>

\* the variables of the encoding walk while another part of the program runs
EncIdle ==
    /\ baseEncoding = "" /\ differences = <<>> /\ diffJ = 1 /\ replacements = 0
    /\ mSimpleEncodingTable = <<>> /\ writes = <<>> /\ encStatus = "idle"

\* a pointer a dictionary does not have, and one that is no integer
None == -1
NotInt == -2

\* a cross-reference section: a classic table with its trailer dictionary, or
\* a cross-reference stream with its stream dictionary
Section(kind, lines, prev, xrefStm, root) ==
    [kind |-> kind, lines |-> lines, prev |-> prev, xrefStm |-> xrefStm, root |-> root]

\* parser.trailerDict == nil
NilDict == Section("nil", <<>>, None, None, FALSE)

\* the variables of the cross-reference loader while another part runs
XrefIdle ==
    /\ xfile = [start |-> None, sections |-> <<>>] /\ xrefOffset = None
    /\ startXrefPositions = <<>> /\ backward_compatibility = FALSE
    /\ trailerDict = NilDict /\ getRoot = FALSE /\ xrefs = <<>>
    /\ curObjIdx = -1 /\ insideSubsection = FALSE /\ lineIdx = 1
    /\ parsedAt = <<>> /\ xpc = "idle"

\* a reference object: the object at address ptr, naming object num gen
PdfObjectReference(ptr, num, gen) ==
    [ptr |-> ptr, isRef |-> TRUE, ObjectNumber |-> num, GenerationNumber |-> gen]

\* an object at address ptr that is no reference
PdfObjectOther(ptr) ==
    [ptr |-> ptr, isRef |-> FALSE, ObjectNumber |-> None, GenerationNumber |-> None]

\* the variables of traceToObject while another part runs
TraceIdle ==
    /\ objTable = <<>> /\ traceObj = PdfObjectOther(None) /\ refList = {}
    /\ followed = <<>> /\ traceStatus = "idle"

\* the variables of the inline-image data scanner (unnamed/part_001:196-255) while another part runs
ImgIdle ==
    /\ imgData = <<>> /\ imgPos = 0 /\ imStream = <<>> /\ skipBytes = <<>>
    /\ imgState = 0 /\ imgStatus = "idle"

\* the variables of the stream length check of ParseIndirectObject (core/parser.go:256-293) while another part runs
SlIdle ==
    /\ slOffsets = {} /\ slTodo = {} /\ nextOffset = 0 /\ streamStartOffset = 0
    /\ streamLength = 0 /\ dictLength = 0 /\ slFileLen = 0 /\ slStatus = "idle"

\* the variables of PdfParser.ParseDict (core/parser.go:1127-1191) while another part runs
DictIdle ==
    /\ dictTokens = <<>> /\ dictI = 1 /\ readingKey = FALSE /\ readingValue = FALSE
    /\ keyName = <<>> /\ pdfDict = <<>> /\ dictStatus = "idle"

\* the variables of PdfReader.buildPageList (model/reader.go:728-804) while another part runs
BplIdle ==
    /\ pageNodes = <<>> /\ bplStack = <<>> /\ traversedPageNodes = {}
    /\ rdPageList = <<>> /\ rdPageResources = <<>> /\ parentSet = <<>>
    /\ bplStatus = "idle"

\* the variables of PdfReader.ParseFonts (model/reader.go:569-638) while another part runs
FontsIdle ==
    /\ fontObjs = <<>> /\ fontPages = <<>> /\ fpI = 0 /\ fpJ = 0
    /\ pfFonts = <<>> /\ pfByIndexes = {} /\ parseFontsStatus = "idle"

\* the variables of PdfParser.traceStreamLength (core/parser.go:121-147) while another part runs
TslIdle ==
    /\ lenObjs = <<>> /\ tslCalls = <<>> /\ tslStack = <<>>
    /\ streamLengthReferenceLookupInProgress = {} /\ tslCache = {}
    /\ tslResults = <<>> /\ tslStatus = "idle"

\* the variables of the range loops of CMap.parseNotdefrange, parseCidrange and parseBfrange (extractor/extractor.go:535-552, 639-670, 757-784) while another part runs
RngIdle ==
    /\ rngSection = "" /\ srcCodeFrom = <<>> /\ srcCodeTo = <<>>
    /\ rngTarget = <<>> /\ rngSc = <<>> /\ rngI = 0 /\ rngCodeMap = <<>>
    /\ rngCount = 0 /\ rngStatus = "idle"

RestIdle == CspIdle /\ EncIdle /\ XrefIdle /\ TraceIdle /\ ImgIdle /\ SlIdle /\ DictIdle /\ BplIdle /\ FontsIdle /\ TslIdle /\ RngIdle

CspOthersIdle == CMapIdle /\ TextIdle /\ DocIdle /\ EncIdle /\ XrefIdle /\ TraceIdle /\ ImgIdle /\ SlIdle /\ DictIdle /\ BplIdle /\ FontsIdle /\ TslIdle /\ RngIdle

cspOthers == <<cmapVars, textVars, docVars, encVars, xrefVars, traceVars, imgVars, slVars, dictVars, bplVars, fontsVars, tslVars, rngVars>>

EncOthersIdle == CMapIdle /\ TextIdle /\ DocIdle /\ CspIdle /\ XrefIdle /\ TraceIdle /\ ImgIdle /\ SlIdle /\ DictIdle /\ BplIdle /\ FontsIdle /\ TslIdle /\ RngIdle

encOthers == <<cmapVars, textVars, docVars, cspVars, xrefVars, traceVars, imgVars, slVars, dictVars, bplVars, fontsVars, tslVars, rngVars>>

XrefOthersIdle == CMapIdle /\ TextIdle /\ DocIdle /\ CspIdle /\ EncIdle /\ TraceIdle /\ ImgIdle /\ SlIdle /\ DictIdle /\ BplIdle /\ FontsIdle /\ TslIdle /\ RngIdle

xrefOthers == <<cmapVars, textVars, docVars, cspVars, encVars, traceVars, imgVars, slVars, dictVars, bplVars, fontsVars, tslVars, rngVars>>

TraceOthersIdle == CMapIdle /\ TextIdle /\ DocIdle /\ CspIdle /\ EncIdle /\ XrefIdle /\ ImgIdle /\ SlIdle /\ DictIdle /\ BplIdle /\ FontsIdle /\ TslIdle /\ RngIdle

traceOthers == <<cmapVars, textVars, docVars, cspVars, encVars, xrefVars, imgVars, slVars, dictVars, bplVars, fontsVars, tslVars, rngVars>>

ImgOthersIdle == CMapIdle /\ TextIdle /\ DocIdle /\ CspIdle /\ EncIdle /\ XrefIdle /\ TraceIdle /\ SlIdle /\ DictIdle /\ BplIdle /\ FontsIdle /\ TslIdle /\ RngIdle

imgOthers == <<cmapVars, textVars, docVars, cspVars, encVars, xrefVars, traceVars, slVars, dictVars, bplVars, fontsVars, tslVars, rngVars>>

SlOthersIdle == CMapIdle /\ TextIdle /\ DocIdle /\ CspIdle /\ EncIdle /\ XrefIdle /\ TraceIdle /\ ImgIdle /\ DictIdle /\ BplIdle /\ FontsIdle /\ TslIdle /\ RngIdle

slOthers == <<cmapVars, textVars, docVars, cspVars, encVars, xrefVars, traceVars, imgVars, dictVars, bplVars, fontsVars, tslVars, rngVars>>

DictOthersIdle == CMapIdle /\ TextIdle /\ DocIdle /\ CspIdle /\ EncIdle /\ XrefIdle /\ TraceIdle /\ ImgIdle /\ SlIdle /\ BplIdle /\ FontsIdle /\ TslIdle /\ RngIdle

dictOthers == <<cmapVars, textVars, docVars, cspVars, encVars, xrefVars, traceVars, imgVars, slVars, bplVars, fontsVars, tslVars, rngVars>>

BplOthersIdle == CMapIdle /\ TextIdle /\ DocIdle /\ CspIdle /\ EncIdle /\ XrefIdle /\ TraceIdle /\ ImgIdle /\ SlIdle /\ DictIdle /\ FontsIdle /\ TslIdle /\ RngIdle

bplOthers == <<cmapVars, textVars, docVars, cspVars, encVars, xrefVars, traceVars, imgVars, slVars, dictVars, fontsVars, tslVars, rngVars>>

FontsOthersIdle == CMapIdle /\ TextIdle /\ DocIdle /\ CspIdle /\ EncIdle /\ XrefIdle /\ TraceIdle /\ ImgIdle /\ SlIdle /\ DictIdle /\ BplIdle /\ TslIdle /\ RngIdle

fontsOthers == <<cmapVars, textVars, docVars, cspVars, encVars, xrefVars, traceVars, imgVars, slVars, dictVars, bplVars, tslVars, rngVars>>

TslOthersIdle == CMapIdle /\ TextIdle /\ DocIdle /\ CspIdle /\ EncIdle /\ XrefIdle /\ TraceIdle /\ ImgIdle /\ SlIdle /\ DictIdle /\ BplIdle /\ FontsIdle /\ RngIdle

tslOthers == <<cmapVars, textVars, docVars, cspVars, encVars, xrefVars, traceVars, imgVars, slVars, dictVars, bplVars, fontsVars, rngVars>>

RngOthersIdle == CMapIdle /\ TextIdle /\ DocIdle /\ CspIdle /\ EncIdle /\ XrefIdle /\ TraceIdle /\ ImgIdle /\ SlIdle /\ DictIdle /\ BplIdle /\ FontsIdle /\ TslIdle

rngOthers == <<cmapVars, textVars, docVars, cspVars, encVars, xrefVars, traceVars, imgVars, slVars, dictVars, bplVars, fontsVars, tslVars>>

InitCMap ==
    /\ TextIdle
    /\ DocIdle
    /\ RestIdle
    /\ cmap \in CMapInputs
    /\ src \in SrcInputs
    /\ fn \in {"unicode", "cid"}
    /\ flag \in (IF fn = "unicode" THEN BOOLEAN ELSE {FALSE})
    /\ srcI = 0
    /\ srcJ = 0
    /\ code = 0
    /\ encodingList = <<>>
    /\ out = <<>>
    /\ dpc = "outer"
    /\ steps = <<>>

\* for i < len(src) { var code uint64; var j int; encodingList := make([]string, 4)
OuterEnter ==
    /\ dpc = "outer"
    /\ srcI < Len(src)
    /\ code' = 0
    /\ srcJ' = 0
    /\ encodingList' = IF fn = "unicode" THEN << <<>>, <<>>, <<>>, <<>> >> ELSE <<>>
    /\ dpc' = "inner"
    /\ UNCHANGED <<cmap, src, flag, fn, srcI, out, steps, textVars, docVars, restVars>>

\* the loop condition fails: return buf.String()
OuterExit ==
    /\ dpc = "outer"
    /\ srcI >= Len(src)
    /\ dpc' = "done"
    /\ UNCHANGED <<cmap, src, flag, fn, srcI, srcJ, code, encodingList, out, steps, textVars, docVars, restVars>>

\* one iteration of the inner loop; a break also runs i += j + 1
InnerStep(emit) ==
    LET c2 == ShiftIn(code, src[srcI + srcJ + 1])
        hit == IsHit(cmap, c2, srcJ)
    IN  /\ code' = c2
        /\ IF hit \/ IsLast(src, srcI, srcJ)
           THEN /\ out' = out \o emit
                /\ steps' = Append(steps,
                      [at |-> srcI, w |-> srcJ + 1, hit |-> hit, emit |-> emit])
                /\ srcI' = srcI + srcJ + 1
                /\ dpc' = "outer"
                /\ UNCHANGED srcJ
           ELSE /\ srcJ' = srcJ + 1
                /\ UNCHANGED <<out, steps, srcI, dpc>>

UnicodeInner ==
    /\ dpc = "inner"
    /\ fn = "unicode"
    /\ srcJ < maxLen /\ srcI + srcJ < Len(src)
    /\ encodingList' =
          IF flag
          THEN Append(encodingList,
                      Utf8CodepointToUtf8(SimpleEncodingTable[src[srcI + srcJ + 1]]))
          ELSE encodingList
    /\ InnerStep(UnicodeEmit(cmap, src, srcI, srcJ, ShiftIn(code, src[srcI + srcJ + 1]),
                             SimpleEncodingTable, flag))
    /\ UNCHANGED <<cmap, src, flag, fn, textVars, docVars, restVars>>

CidInner ==
    /\ dpc = "inner"
    /\ fn = "cid"
    /\ srcJ < maxLen /\ srcI + srcJ < Len(src)
    /\ InnerStep(CidEmit(cmap, src, srcI, srcJ, ShiftIn(code, src[srcI + srcJ + 1])))
    /\ UNCHANGED <<cmap, src, flag, fn, encodingList, textVars, docVars, restVars>>

NextCMap == OuterEnter \/ OuterExit \/ UnicodeInner \/ CidInner

-----------------------------------------------------------------------------
(* The handler as a state machine: Process feeds it one operation at a time *)

MaxOps == 4

StrA == <<65>>
StrB == <<66>>
StrAB == <<65, 66>>

Num(n) == PdfObjectInteger(n)

Op_BT == ContentStreamOperation("BT", <<>>)
Op_ET == ContentStreamOperation("ET", <<>>)
Op_re == ContentStreamOperation("re", <<Num(0), Num(0), Num(10), Num(10)>>)
Op_reWide == ContentStreamOperation("re", <<Num(0), Num(0), Num(20), Num(10)>>)
Op_Tf(nm) == ContentStreamOperation("Tf", <<PdfObjectName(nm), Num(12)>>)
Op_Tm(e, g) == ContentStreamOperation("Tm", <<Num(1), Num(0), Num(0), Num(1), Num(e), Num(g)>>)
Op_Tstar == ContentStreamOperation("T*", <<>>)
Op_Td(tx, ty) == ContentStreamOperation("Td", <<Num(tx), Num(ty)>>)
Op_Tj(s) == ContentStreamOperation("Tj", <<PdfObjectString(s)>>)
Op_TJ(a) == ContentStreamOperation("TJ", <<PdfObjectArray(a)>>)
Op_Quote(s) == ContentStreamOperation("'", <<PdfObjectString(s)>>)
Op_DQuote(s) == ContentStreamOperation("\"", <<Num(0), Num(0), PdfObjectString(s)>>)
Op_DQuoteShort(s) == ContentStreamOperation("\"", <<PdfObjectString(s)>>)

\* streams of text positioning
PositioningOps ==
    { Op_BT, Op_ET, Op_re, Op_Tf("F1"), Op_Tf("F9"),
      Op_Tm(0, 100), Op_Tm(0, 50), Op_Tm(200, 100),
      Op_Tstar, Op_Td(0, -12), Op_Tj(StrA), Op_Quote(StrB) }

\* streams of text showing, under every font of the page
ShowingOps ==
    { Op_BT, Op_Tf("F1"), Op_Tf("F2"), Op_Tf("F3"), Op_Tf("F4"), Op_Tf("F5"), Op_Tf("F6"),
      Op_Tj(StrAB), Op_Quote(StrAB), Op_DQuote(StrAB), Op_DQuoteShort(StrAB),
      Op_TJ(<<PdfObjectString(StrAB), Num(-120), PdfObjectString(StrA)>>) }

OpInputs(pr) == IF pr = "positioning" THEN PositioningOps ELSE ShowingOps

\* BT /F1 12 Tf (Hello) Tj ET
ScenarioHello ==
    << Op_BT, Op_Tf("F1"), Op_Tj(<<72, 101, 108, 108, 111>>), Op_ET >>

\* BT /F1 12 Tf 1 0 0 1 0 100 Tm (A) Tj 1 0 0 1 0 50 Tm (B) Tj ET
ScenarioYDrop ==
    << Op_BT, Op_Tf("F1"), Op_Tm(0, 100), Op_Tj(StrA), Op_Tm(0, 50), Op_Tj(StrB), Op_ET >>

\* BT /F1 12 Tf 1 0 0 1 0 100 Tm (A) Tj 1 0 0 1 200 100 Tm (B) Tj ET
ScenarioXAdvance ==
    << Op_BT, Op_Tf("F1"), Op_Tm(0, 100), Op_Tj(StrA), Op_Tm(200, 100), Op_Tj(StrB), Op_ET >>

\* BT /F1 12 Tf 1 0 0 1 0 100 Tm (A) Tj 1 0 0 1 200 50 Tm (B) Tj ET
ScenarioYDropXAdvance ==
    << Op_BT, Op_Tf("F1"), Op_Tm(0, 100), Op_Tj(StrA), Op_Tm(200, 50), Op_Tj(StrB), Op_ET >>

\* three text objects: after a first rectangle, after the same rectangle
\* again, and after another rectangle followed by an re inside the text object
ScenarioRects ==
    << Op_re, Op_BT, Op_Tstar, Op_Tj(StrA), Op_ET,
       Op_re, Op_BT, Op_Tstar, Op_Tj(StrB), Op_ET,
       Op_reWide, Op_BT, Op_re, Op_Tstar, Op_Tj(StrA), Op_ET >>

Scenarios ==
    { ScenarioHello, ScenarioYDrop, ScenarioXAdvance, ScenarioYDropXAdvance,
      ScenarioRects }

TextState ==
    [inText |-> inText, xPos |-> xPos, yPos |-> yPos, preRect |-> preRect,
     rect |-> rect, font |-> font, buf |-> buf, status |-> status]

InitText ==
    /\ CMapIdle
    /\ DocIdle
    /\ RestIdle
    /\ script \in {<<>>} \cup Scenarios
    /\ profile \in (IF script = <<>> THEN {"positioning", "showing"} ELSE {"positioning"})
    /\ operations = <<>>
    /\ inText = InitialTextState.inText
    /\ xPos = InitialTextState.xPos
    /\ yPos = InitialTextState.yPos
    /\ preRect = InitialTextState.preRect
    /\ rect = InitialTextState.rect
    /\ font = InitialTextState.font
    /\ buf = InitialTextState.buf
    /\ status = InitialTextState.status

\* the operations that may come next in the stream
NextOps ==
    IF script # <<>>
    THEN (IF Len(operations) < Len(script) THEN {script[Len(operations) + 1]} ELSE {})
    ELSE (IF Len(operations) < MaxOps THEN OpInputs(profile) ELSE {})

\* one iteration of Process: the handler runs on the next operation
Feed(op) ==
    /\ status = "run"
    /\ LET s2 == Handler(TextState, op, PageFonts) IN
          /\ inText' = s2.inText
          /\ xPos' = s2.xPos
          /\ yPos' = s2.yPos
          /\ preRect' = s2.preRect
          /\ rect' = s2.rect
          /\ font' = s2.font
          /\ buf' = s2.buf
          /\ status' = s2.status
    /\ operations' = Append(operations, op)
    /\ UNCHANGED <<profile, script, cmapVars, docVars, restVars>>

Do_re == \E op \in NextOps : op.Operand = "re" /\ Feed(op)
Do_BT == \E op \in NextOps : op.Operand = "BT" /\ Feed(op)
Do_ET == \E op \in NextOps : op.Operand = "ET" /\ Feed(op)
Do_Tf == \E op \in NextOps : op.Operand = "Tf" /\ Feed(op)
Do_Tstar == \E op \in NextOps : op.Operand = "T*" /\ Feed(op)
Do_Quote == \E op \in NextOps : op.Operand = "'" /\ Feed(op)
Do_DQuote == \E op \in NextOps : op.Operand = "\"" /\ Feed(op)
Do_Td == \E op \in NextOps : op.Operand = "Td" /\ Feed(op)
Do_Tm == \E op \in NextOps : op.Operand = "Tm" /\ Feed(op)
Do_TJ == \E op \in NextOps : op.Operand = "TJ" /\ Feed(op)
Do_Tj == \E op \in NextOps : op.Operand = "Tj" /\ Feed(op)

\* the stream ends here: Process returns nil and ExtractText returns buf
ProcessReturn ==
    /\ status = "run"
    /\ script = <<>> \/ Len(operations) = Len(script)
    /\ status' = "done"
    /\ UNCHANGED <<profile, script, operations, inText, xPos, yPos, preRect, rect,
                   font, buf, cmapVars, docVars, restVars>>

NextText ==
    \/ Do_re \/ Do_BT \/ Do_ET \/ Do_Tf \/ Do_Tstar \/ Do_Quote \/ Do_DQuote
    \/ Do_Td \/ Do_Tm \/ Do_TJ \/ Do_Tj \/ ProcessReturn

SpecText == InitText /\ [][NextText]_vars

-----------------------------------------------------------------------------
(* parseText: a producer goroutine sends the content streams of the pages   *)
(* through a buffered channel, the caller receives and extracts them        *)

MaxContents == 2

\* make(chan ContentPair, 10)
ChanCap == 10

\* a content stream: whether DecodeStream succeeds, whether the content stream
\* parser accepts the decoded data, and the operations it parses to
Stream(decodeOk, parseOk, ops) == [decodeOk |-> decodeOk, parseOk |-> parseOk, ops |-> ops]

\* BT /F1 12 Tf (AB) Tj ET
StreamAB == Stream(TRUE, TRUE, << Op_BT, Op_Tf("F1"), Op_Tj(StrAB), Op_ET >>)

\* BT (A) Tj /F9 12 Tf (B) Tj ET: the font F9 is on no page
StreamBadFont ==
    Stream(TRUE, TRUE, << Op_BT, Op_Tj(StrA), Op_Tf("F9"), Op_Tj(StrB), Op_ET >>)

\* a stream the content stream parser rejects
StreamBadTokens == Stream(TRUE, FALSE, <<>>)

\* a stream whose filter fails
StreamBadFilter == Stream(FALSE, TRUE, << Op_BT, Op_Tj(StrA), Op_ET >>)

StreamHello == Stream(TRUE, TRUE, ScenarioHello)

\* an entry of Contents: what parser.Trace gives for it
Traced(s) == [kind |-> "stream", s |-> s]
TraceFails == [kind |-> "error", s |-> StreamBadTokens]
NotAStream == [kind |-> "other", s |-> StreamBadTokens]

ContentInputs ==
    { Traced(StreamAB), Traced(StreamBadFont), Traced(StreamBadTokens),
      Traced(StreamBadFilter), TraceFails, NotAStream }

\* a page: Contents is an array of entries, or a single entry
Page(isDict, isArray, contents) ==
    [isDict |-> isDict, isArray |-> isArray, contents |-> contents]

PageInputs ==
    { Page(TRUE, TRUE, cs) : cs \in SeqsUpTo(ContentInputs, MaxContents) }
        \cup { Page(TRUE, FALSE, <<c>>) : c \in ContentInputs }
        \cup { Page(FALSE, FALSE, <<>>) }

\* one page with more streams than the channel holds
LongPage == Page(TRUE, TRUE, [k \in 1..(ChanCap + 2) |-> Traced(StreamAB)])

LongPageBadFilter ==
    Page(TRUE, TRUE, [k \in 1..(ChanCap + 3) |->
                        IF k = 1 THEN Traced(StreamBadFilter) ELSE Traced(StreamAB)])

HelloDocument == << Page(TRUE, FALSE, << Traced(StreamHello) >>) >>

DocumentInputs ==
    { <<pg>> : pg \in PageInputs }
        \cup { <<pg, qg>> : pg \in PageInputs, qg \in PageInputs }
        \cup { <<LongPage>>, <<LongPageBadFilter>>, HelloDocument }

\* mFontsForPages: the font table of each page
mFontsForPages == << PageFonts, OtherPageFonts >>

\* Extractor.ExtractText on a decoded stream: [text, err, panic]
ExtractTextOf(s, f) ==
    IF ~s.parseOk THEN [text |-> <<>>, err |-> TRUE, panic |-> FALSE]
    ELSE ExtractText(s.ops, f)

ContentPair(s, index) == [s |-> s, index |-> index]

\* a faulty variant of FontsOf: every stream gets the font table of the first page
FontsOfFirstPage(pair) == mFontsForPages[1]

\* mFontsForPages[pair.index]
FontsOf(pair) == mFontsForPages[pair.index]

InitDoc ==
    /\ CMapIdle
    /\ TextIdle
    /\ RestIdle
    /\ pageList \in DocumentInputs
    /\ pageI = 1
    /\ contentJ = 1
    /\ ppc = "scan"
    /\ contentStreamChan = <<>>
    /\ closed = FALSE
    /\ received = <<>>
    /\ textBuffer = <<>>
    /\ cpc = "recv"
    /\ ret = [text |-> <<>>, err |-> FALSE]

\* the producer is at an entry of the Contents of page i
AtEntry ==
    /\ pageI <= Len(pageList)
    /\ pageList[pageI].isDict
    /\ contentJ <= Len(pageList[pageI].contents)

\* parser.Trace of the entry: a stream is kept for sending, anything else is
\* passed over
ProducerTrace ==
    /\ ppc = "scan"
    /\ AtEntry
    /\ IF pageList[pageI].contents[contentJ].kind = "stream"
       THEN ppc' = "send" /\ UNCHANGED contentJ
       ELSE contentJ' = contentJ + 1 /\ UNCHANGED ppc
    /\ UNCHANGED <<pageList, pageI, contentStreamChan, closed, received, textBuffer,
                   cpc, ret, cmapVars, textVars, restVars>>

\* the entries of page i are done, or the page is no dictionary: i++
ProducerNextPage ==
    /\ ppc = "scan"
    /\ pageI <= Len(pageList)
    /\ ~AtEntry
    /\ pageI' = pageI + 1
    /\ contentJ' = 1
    /\ UNCHANGED <<pageList, ppc, contentStreamChan, closed, received, textBuffer,
                   cpc, ret, cmapVars, textVars, restVars>>

\* select { case contentStreamChan <- ContentPair{contentStmObj, i}: produce = false
ProducerSend ==
    /\ ppc = "send"
    /\ Len(contentStreamChan) < ChanCap
    /\ contentStreamChan' =
          Append(contentStreamChan,
                 ContentPair(pageList[pageI].contents[contentJ].s, pageI))
    /\ contentJ' = contentJ + 1
    /\ ppc' = "scan"
    /\ UNCHANGED <<pageList, pageI, closed, received, textBuffer, cpc, ret,
                   cmapVars, textVars, restVars>>

\* default: time.Sleep(2 * time.Millisecond), and the select is tried again
ProducerSleep ==
    /\ ppc = "send"
    /\ Len(contentStreamChan) >= ChanCap
    /\ UNCHANGED vars

\* close(contentStreamChan)
ProducerClose ==
    /\ ppc = "scan"
    /\ pageI > Len(pageList)
    /\ closed' = TRUE
    /\ ppc' = "exit"
    /\ UNCHANGED <<pageList, pageI, contentJ, contentStreamChan, received, textBuffer,
                   cpc, ret, cmapVars, textVars, restVars>>

\* pair, ok := <-contentStreamChan; DecodeStream fails: return "", err
ConsumerDecodeFails ==
    /\ cpc = "recv"
    /\ contentStreamChan # <<>>
    /\ ~Head(contentStreamChan).s.decodeOk
    /\ contentStreamChan' = Tail(contentStreamChan)
    /\ received' = Append(received, Head(contentStreamChan))
    /\ ret' = [text |-> <<>>, err |-> TRUE]
    /\ cpc' = "returned"
    /\ UNCHANGED <<pageList, pageI, contentJ, ppc, closed, textBuffer, cmapVars, textVars, restVars>>

\* pair, ok := <-contentStreamChan; s, _ := e.ExtractText();
\* textBuffer.WriteString(s); textBuffer.WriteString("\n\n")
ConsumerExtract ==
    /\ cpc = "recv"
    /\ contentStreamChan # <<>>
    /\ Head(contentStreamChan).s.decodeOk
    /\ contentStreamChan' = Tail(contentStreamChan)
    /\ received' = Append(received, Head(contentStreamChan))
    /\ textBuffer' = textBuffer
          \o ExtractTextOf(Head(contentStreamChan).s, FontsOf(Head(contentStreamChan))).text
          \o <<10, 10>>
    /\ UNCHANGED <<pageList, pageI, contentJ, ppc, closed, cpc, ret, cmapVars, textVars, restVars>>

\* the channel is closed and empty: return textBuffer.String(), nil
ConsumerReturn ==
    /\ cpc = "recv"
    /\ contentStreamChan = <<>>
    /\ closed
    /\ ret' = [text |-> textBuffer, err |-> FALSE]
    /\ cpc' = "returned"
    /\ UNCHANGED <<pageList, pageI, contentJ, ppc, contentStreamChan, closed, received,
                   textBuffer, cmapVars, textVars, restVars>>

NextDoc ==
    \/ ProducerTrace \/ ProducerNextPage \/ ProducerSend \/ ProducerSleep
    \/ ProducerClose \/ ConsumerDecodeFails \/ ConsumerExtract \/ ConsumerReturn

SpecDoc == InitDoc /\ [][NextDoc]_vars

\* the two goroutines are scheduled: each takes a step it can take
ProducerNext == ProducerTrace \/ ProducerNextPage \/ ProducerSend \/ ProducerClose

ConsumerNext == ConsumerDecodeFails \/ ConsumerExtract \/ ConsumerReturn

SpecDocFair ==
    InitDoc /\ [][NextDoc]_vars /\ WF_vars(ProducerNext) /\ WF_vars(ConsumerNext)

-----------------------------------------------------------------------------
(* Properties of parseText *)

IsPrefix(s, u) == Len(s) <= Len(u) /\ SubSeq(u, 1, Len(s)) = s

\* the streams of the document in page order, each page's Contents in order,
\* each with the index of its page
PairsOfPage(i) ==
    IF ~pageList[i].isDict THEN <<>>
    ELSE Flatten([j \in 1..Len(pageList[i].contents) |->
                    IF pageList[i].contents[j].kind = "stream"
                    THEN << ContentPair(pageList[i].contents[j].s, i) >>
                    ELSE <<>>])

AllPairs == Flatten([i \in 1..Len(pageList) |-> PairsOfPage(i)])

\* a received stream failed: its filter, its tokens or the handler
Failed(pair) ==
    \/ ~pair.s.decodeOk
    \/ ExtractTextOf(pair.s, mFontsForPages[pair.index]).err

\* the text of the streams, each followed by a blank line, in order
TextOfPairs(ps) ==
    Flatten([k \in 1..Len(ps) |->
               ExtractTextOf(ps[k].s, mFontsForPages[ps[k].index]).text \o <<10, 10>>])

\* C27: the producer goroutine always ends and closes the channel, whatever
\* the consumer does, and it never traces an object through the parser once
\* parseText has returned
C27_ProducerTerminates ==
    /\ <>(ppc = "exit" /\ closed)
    /\ [][cpc = "returned" => ~ProducerTrace]_vars

\* C1: when a stream fails to decode or to extract, parseText gives up: it
\* returns the error and no text
C1_FailureAborts ==
    (cpc = "returned" /\ \E k \in 1..Len(received) : Failed(received[k]))
        => (ret.err /\ ret.text = <<>>)

\* C2: the channel hands the streams over in the order they were sent, none
\* dropped or repeated; a document that extracts without error gives the text of
\* its streams in page order and, within a page, Contents order, each with a
\* blank line after it and each extracted with the font table of its own page;
\* the single stream BT /F1 12 Tf (Hello) Tj ET gives Hello and a blank line
C2_OrderedConcatenation ==
    /\ IsPrefix(received \o contentStreamChan, AllPairs)
    /\ (cpc = "returned" /\ ~ret.err) =>
          /\ received = AllPairs
          /\ ret.text = TextOfPairs(AllPairs)
    /\ (cpc = "returned" /\ pageList = HelloDocument) =>
          ret.text = <<72, 101, 108, 108, 111, 10, 10>>

\* two pages whose streams read differently under the two font tables
C2_Witness ==
    /\ cpc = "returned"
    /\ ~ret.err
    /\ Len(pageList) > 1
    /\ Len(received) > 2
    /\ ret.text = <<65, 66, 10, 10, 65, 66, 10, 10, 97, 10, 10>>

-----------------------------------------------------------------------------
(* ContentStreamProcessor: handlers are registered, then Process runs them   *)
(* over the operations                                                       *)

MaxHandlers == 2
MaxCspOps == 3

HandlerConditionEnumOperand == 0
HandlerConditionEnumAllOperands == 1

\* a HandlerEntry; the callback is given by the operands on which it returns
\* an error
HandlerEntry(condition, operand, failsOn) ==
    [Condition |-> condition, Operand |-> operand, failsOn |-> failsOn]

HandlerInputs ==
    { HandlerEntry(HandlerConditionEnumAllOperands, "", {}),
      HandlerEntry(HandlerConditionEnumAllOperands, "", {"Tj"}),
      HandlerEntry(HandlerConditionEnumOperand, "Tj", {}),
      HandlerEntry(HandlerConditionEnumOperand, "Tj", {"Tj", "BT"}),
      HandlerEntry(HandlerConditionEnumOperand, "BT", {"BT"}),
      HandlerEntry(HandlerConditionEnumOperand, "BT", {}) }

CspOperands == {"BT", "Tj"}

\* HandlerConditionEnum.All
All(condition) == condition = HandlerConditionEnumAllOperands

\* HandlerConditionEnum.Operand
Operand(condition) == condition = HandlerConditionEnumOperand

\* a faulty variant of Invoked: the operand of the entry is not compared
InvokedAnyOperand(entry, operand) == TRUE

\* the two branches of Process that call entry.Handler
Invoked(entry, operand) ==
    All(entry.Condition) \/ (Operand(entry.Condition) /\ operand = entry.Operand)

\* what entry.Handler returns for the operation: TRUE for an error
HandlerFails(entry, operand) == operand \in entry.failsOn

\* NewContentStreamProcessor(ops)
InitCsp ==
    /\ CspOthersIdle
    /\ cspOps \in SeqsUpTo(CspOperands, MaxCspOps)
    /\ handlers = <<>>
    /\ opIndex = 1
    /\ entryIndex = 1
    /\ calls = <<>>
    /\ cspStatus = "register"
    /\ cspErr = <<>>

\* csp.handlers = append(csp.handlers, entry)
AddHandler ==
    /\ cspStatus = "register"
    /\ Len(handlers) < MaxHandlers
    /\ \E entry \in HandlerInputs : handlers' = Append(handlers, entry)
    /\ UNCHANGED <<cspOps, opIndex, entryIndex, calls, cspStatus, cspErr, cspOthers>>

\* Process is called
ProcessEnter ==
    /\ cspStatus = "register"
    /\ cspStatus' = "run"
    /\ UNCHANGED <<cspOps, handlers, opIndex, entryIndex, calls, cspErr, cspOthers>>

\* one iteration of for _, entry := range this.handlers
ProcessEntry ==
    /\ cspStatus = "run"
    /\ opIndex <= Len(cspOps)
    /\ entryIndex <= Len(handlers)
    /\ LET entry == handlers[entryIndex]
           op == cspOps[opIndex]
       IN  IF Invoked(entry, op)
           THEN /\ calls' = Append(calls, <<opIndex, entryIndex>>)
                /\ IF HandlerFails(entry, op)
                   THEN /\ cspStatus' = "err"
                        /\ cspErr' = <<opIndex, entryIndex>>
                        /\ UNCHANGED entryIndex
                   ELSE /\ entryIndex' = entryIndex + 1
                        /\ UNCHANGED <<cspStatus, cspErr>>
           ELSE /\ entryIndex' = entryIndex + 1
                /\ UNCHANGED <<calls, cspStatus, cspErr>>
    /\ UNCHANGED <<cspOps, handlers, opIndex, cspOthers>>

\* the handlers are done for this operation: the next operation
ProcessNextOp ==
    /\ cspStatus = "run"
    /\ opIndex <= Len(cspOps)
    /\ entryIndex > Len(handlers)
    /\ opIndex' = opIndex + 1
    /\ entryIndex' = 1
    /\ UNCHANGED <<cspOps, handlers, calls, cspStatus, cspErr, cspOthers>>

\* the operations are done: return nil
ProcessReturnNil ==
    /\ cspStatus = "run"
    /\ opIndex > Len(cspOps)
    /\ cspStatus' = "nil"
    /\ UNCHANGED <<cspOps, handlers, opIndex, entryIndex, calls, cspErr, cspOthers>>

NextCsp ==
    \/ AddHandler \/ ProcessEnter \/ ProcessEntry \/ ProcessNextOp \/ ProcessReturnNil

SpecCsp == InitCsp /\ [][NextCsp]_vars

\* ---- properties of Process

\* <<operation, entry>> for every operation in stream order and, for each,
\* every entry in registration order
VisitOrder ==
    Flatten([i \in 1..Len(cspOps) |-> [h \in 1..Len(handlers) |-> <<i, h>>]])

\* the entry's condition is "all operations" or its operand is the operator
ConditionMatches(c) ==
    \/ handlers[c[2]].Condition = HandlerConditionEnumAllOperands
    \/ handlers[c[2]].Operand = cspOps[c[1]]

CallFails(c) == cspOps[c[1]] \in handlers[c[2]].failsOn

\* the calls due: those of the visit order whose condition matches, up to and
\* including the first that fails
RECURSIVE CallsDue(_)
CallsDue(order) ==
    IF order = <<>> THEN <<>>
    ELSE IF ~ConditionMatches(Head(order)) THEN CallsDue(Tail(order))
    ELSE IF CallFails(Head(order)) THEN << Head(order) >>
    ELSE << Head(order) >> \o CallsDue(Tail(order))

\* C13: Process invokes the handlers in stream order and, within an operation,
\* in registration order, a handler exactly when its condition is "all
\* operations" or its operand is the operator; the first error is returned and
\* no handler is invoked after it.
C13_ProcessOrder ==
    cspStatus \in {"run", "nil", "err"} =>
        /\ IsPrefix(calls, CallsDue(VisitOrder))
        /\ cspStatus \in {"nil", "err"} => calls = CallsDue(VisitOrder)
        /\ cspStatus = "err" <=> (calls # <<>> /\ CallFails(calls[Len(calls)]))
        /\ cspStatus = "err" => cspErr = calls[Len(calls)]
        /\ cspStatus = "nil" => \A k \in 1..Len(calls) : ~CallFails(calls[k])

\* the first operation went through two handlers, the second failed in the
\* first handler, and a later operation and a later handler were never reached
C13_Witness ==
    /\ cspStatus = "err"
    /\ calls = << <<1, 1>>, <<1, 2>>, <<2, 1>> >>
    /\ Len(cspOps) > 2
    /\ handlers[2].Condition = HandlerConditionEnumOperand

-----------------------------------------------------------------------------
(* getFontEncoding, Encoding given as a dictionary: the table is copied from *)
(* the base encoding and patched by the Differences array                    *)

MaxDiffLen == 3

\* the character-name table: glyph name -> codepoint
mPdfCharacterNames == [space |-> 32, A |-> 65, quotesingle |-> 39]

\* StandardEncodingUtf8: byte 0x27 is quoteright, byte 0x60 quoteleft
StandardEncodingUtf8 ==
    [b \in 0..255 |-> IF b = 39 THEN 8217 ELSE IF b = 96 THEN 8216 ELSE b]

\* the predefined simple encodings, by name
mPdfPredefinedSimpleEncodings == [WinAnsiEncoding |-> [b \in 0..255 |-> b]]

BaseEncodingInputs == {"", "WinAnsiEncoding", "NoSuchEncoding"}

\* the elements of a Differences array: integers, glyph names the name table
\* has (space, A) and has not (g1), and an element of another type
DifferenceInputs ==
    { PdfObjectInteger(65), PdfObjectInteger(254), PdfObjectInteger(300),
      PdfObjectName("space"), PdfObjectName("A"), PdfObjectName("g1"),
      PdfObjectString(<<65>>) }

\* [65 /space /A]
DifferencesExample ==
    << PdfObjectInteger(65), PdfObjectName("space"), PdfObjectName("A") >>

\* sourceTable := StandardEncodingUtf8, unless BaseEncoding names a
\* predefined encoding
SourceTable(base) ==
    IF base \in DOMAIN mPdfPredefinedSimpleEncodings
    THEN mPdfPredefinedSimpleEncodings[base]
    ELSE StandardEncodingUtf8

\* if replacements > 255 { replacements = 0 }
WrapIndex(n) == IF n > 255 \/ n < 0 THEN 0 ELSE n

\* the table is made and copied from the source table; var replacements = 0
InitEnc ==
    /\ EncOthersIdle
    /\ baseEncoding \in BaseEncodingInputs
    /\ differences \in SeqsUpTo(DifferenceInputs, MaxDiffLen)
    /\ diffJ = 1
    /\ replacements = 0
    /\ mSimpleEncodingTable = SourceTable(baseEncoding)
    /\ writes = <<>>
    /\ encStatus = "loop"

\* the element is an integer: replacements = uint(*objNumber), wrapped
DiffInteger ==
    /\ encStatus = "loop"
    /\ diffJ <= Len(differences)
    /\ differences[diffJ].t = "Integer"
    /\ replacements' = WrapIndex(differences[diffJ].n)
    /\ diffJ' = diffJ + 1
    /\ UNCHANGED <<baseEncoding, differences, mSimpleEncodingTable, writes, encStatus,
                   encOthers>>

\* the element is a name: a name of the character-name table replaces the
\* slot and moves the index on, any other name does nothing
DiffName ==
    /\ encStatus = "loop"
    /\ diffJ <= Len(differences)
    /\ differences[diffJ].t = "Name"
    /\ IF differences[diffJ].nm \in DOMAIN mPdfCharacterNames
       THEN /\ mSimpleEncodingTable' =
                  [mSimpleEncodingTable EXCEPT
                      ![replacements] = mPdfCharacterNames[differences[diffJ].nm]]
            /\ writes' = Append(writes,
                  [pos |-> diffJ, slot |-> replacements,
                   val |-> mPdfCharacterNames[differences[diffJ].nm]])
            /\ replacements' = WrapIndex(replacements + 1)
       ELSE UNCHANGED <<mSimpleEncodingTable, writes, replacements>>
    /\ diffJ' = diffJ + 1
    /\ UNCHANGED <<baseEncoding, differences, encStatus, encOthers>>

\* the element is neither an integer nor a name
DiffOther ==
    /\ encStatus = "loop"
    /\ diffJ <= Len(differences)
    /\ differences[diffJ].t \notin {"Integer", "Name"}
    /\ diffJ' = diffJ + 1
    /\ UNCHANGED <<baseEncoding, differences, replacements, mSimpleEncodingTable, writes,
                   encStatus, encOthers>>

\* j reached len(*differenctObjArray)
DiffDone ==
    /\ encStatus = "loop"
    /\ diffJ > Len(differences)
    /\ encStatus' = "done"
    /\ UNCHANGED <<baseEncoding, differences, diffJ, replacements, mSimpleEncodingTable,
                   writes, encOthers>>

NextEnc == DiffInteger \/ DiffName \/ DiffOther \/ DiffDone

SpecEnc == InitEnc /\ [][NextEnc]_vars

\* ---- properties of the Differences walk

\* position p holds a name that directly follows an integer and k - 1 names:
\* the position of that integer, 0 if there is none
RECURSIVE IntegerBefore(_)
IntegerBefore(p) ==
    IF p <= 1 THEN 0
    ELSE IF differences[p - 1].t = "Integer" THEN p - 1
    ELSE IF differences[p - 1].t = "Name" THEN IntegerBefore(p - 1)
    ELSE 0

\* the code the name at position p defines: c + k - 1
CodeDefinedAt(p) == differences[IntegerBefore(p)].n + (p - IntegerBefore(p)) - 1

\* C14: the index stays within 0..255; the k-th name following an integer c
\* defines code c + k - 1 when that is at most 255; [65 /space /A] makes
\* byte 0x41 a space and byte 0x42 an A; a slot no name replaced keeps the
\* value of the base encoding.
C14_DifferencesWalk ==
    /\ encStatus \in {"loop", "done"} => replacements \in 0..255
    /\ \A p \in 1..(diffJ - 1) :
          ( /\ differences[p].t = "Name"
            /\ differences[p].nm \in DOMAIN mPdfCharacterNames
            /\ IntegerBefore(p) > 0
            /\ differences[IntegerBefore(p)].n \in 0..255
            /\ CodeDefinedAt(p) <= 255 )
          => \E k \in 1..Len(writes) :
                /\ writes[k].pos = p
                /\ writes[k].slot = CodeDefinedAt(p)
                /\ writes[k].val = mPdfCharacterNames[differences[p].nm]
    /\ encStatus = "done" =>
          /\ \A b \in 0..255 :
                (\A k \in 1..Len(writes) : writes[k].slot # b)
                    => mSimpleEncodingTable[b] = SourceTable(baseEncoding)[b]
          /\ differences = DifferencesExample =>
                (mSimpleEncodingTable[65] = 32 /\ mSimpleEncodingTable[66] = 65)

-----------------------------------------------------------------------------
(* The cross-reference loader: readReferenceData walks the sections from the *)
(* startxref offset along XRefStm and Prev; readXrefTable and readXrefStream *)
(* fill parser.xrefs                                                         *)

MaxXrefLines == 3

\* one line of a classic table or one entry of a cross-reference stream
Line(l, num, a, b, c) == [l |-> l, num |-> num, a |-> a, b |-> b, c |-> c]

\* "first count"
Sub(first, count) == Line("sub", first, count, 0, "")

\* "offset gen n" or "offset gen f"
Ent(offset, gen, c) == Line("ent", 0, offset, gen, c)

\* the entry of object num in a stream: type, second and third field
Stm(num, ftype, n2, n3) == Line("stm", num, n2, n3, ftype)

XrefObject(objectNumber, xtype, offset, generation, osObjNumber, osObjIndex) ==
    [objectNumber |-> objectNumber, xtype |-> xtype, offset |-> offset,
     generation |-> generation, osObjNumber |-> osObjNumber, osObjIndex |-> osObjIndex]

\* the object headers of the file: at offset 100 "1 0 obj", at 200 "2 1 obj",
\* each seven bytes long; the bytes between the objects hold no header
ObjectHeaders ==
    (100 :> [on |-> 1, gn |-> 0, hlen |-> 7]) @@ (200 :> [on |-> 2, gn |-> 1, hlen |-> 7])

\* parser.reader.Peek(20)
PeekLen == 20

\* the headers that lie whole within the bytes peeked at an offset
HeadersPeeked(offset) ==
    { h \in DOMAIN ObjectHeaders :
        h >= offset /\ h + ObjectHeaders[h].hlen <= offset + PeekLen }

\* ParseIndirectObject at an offset: the regexp is not anchored, so the first
\* header within the 20 bytes peeked is found, the bytes before it are
\* discarded ("Take care of any small offset") and its numbers are read
ParseIndirectObject(offset) ==
    IF HeadersPeeked(offset) # {}
    THEN LET h == CHOOSE m \in HeadersPeeked(offset) : \A o \in HeadersPeeked(offset) : m <= o
         IN  [ok |-> TRUE, ObjectNumber |-> ObjectHeaders[h].on,
              GenerationNumber |-> ObjectHeaders[h].gn]
    ELSE [ok |-> FALSE, ObjectNumber |-> 0, GenerationNumber |-> 0]

\* the entry at offset 95 points five bytes before the header of object 1
TableLineInputs ==
    { Sub(1, 2), Ent(100, 0, "n"), Ent(95, 0, "n"), Ent(200, 1, "n"), Ent(1, 3, "n"),
      Ent(0, 65535, "f") }

StreamEntryInputs ==
    { Stm(1, "1", 100, 0), Stm(1, "1", 200, 1), Stm(1, "2", 5, 0), Stm(1, "0", 0, 0),
      Stm(2, "3", 7, 7) }

\* files whose sections point at each other in every way
GraphFiles ==
    { [start |-> 10, sections |-> (10 :> s1) @@ (20 :> s2) @@ (30 :> s3)] :
        s1 \in { Section("table", << Sub(1, 1), Ent(100, 0, "n") >>, pv, xs, rt) :
                    pv \in {None, 10, 20, 30, 40, NotInt}, xs \in {None, 20, NotInt},
                    rt \in BOOLEAN }
               \cup { Section("stream", << Stm(1, "1", 100, 0) >>, pv, None, rt) :
                    pv \in {None, 10, 20, 30, 40, NotInt}, rt \in BOOLEAN },
        s2 \in { Section("table", << Sub(2, 1), Ent(200, 1, "n") >>, pv, xs, rt) :
                    pv \in {None, 10, 30}, xs \in {None, 30}, rt \in BOOLEAN }
               \cup { Section("stream", << Stm(2, "1", 200, 1) >>, pv, None, rt) :
                    pv \in {None, 10, 30}, rt \in BOOLEAN },
        s3 \in { Section(kd, <<>>, pv, None, TRUE) :
                    kd \in {"table", "stream"}, pv \in {None, 20, NotInt} } }

\* the older section of a file of two sections
OlderSections ==
    { Section("table", << Sub(1, 1), Ent(200, 1, "n") >>, None, None, TRUE),
      Section("table", << Sub(1, 1), Ent(100, 0, "n") >>, None, None, TRUE),
      Section("table", << Sub(1, 1), Ent(200, 4, "n") >>, None, None, TRUE),
      Section("stream", << Stm(1, "2", 5, 0) >>, None, None, TRUE),
      Section("stream", << Stm(1, "1", 200, 1) >>, None, None, TRUE) }

\* files of two sections, the newer one with every sequence of lines
EntryFiles ==
    { [start |-> 10, sections |-> (10 :> s1) @@ (20 :> s2)] :
        s1 \in { Section("table", ls, 20, None, TRUE) :
                    ls \in SeqsUpTo(TableLineInputs, MaxXrefLines) }
               \cup { Section("stream", ls, 20, None, TRUE) :
                    ls \in SeqsUpTo(StreamEntryInputs, MaxXrefLines) },
        s2 \in OlderSections }

\* files of five sections: a hybrid section at 10 with its stream at 20, at
\* 30 a classic, hybrid or stream section, then sections at 40 and 50
HybridFiles ==
    { [start |-> 10,
       sections |->
           (10 :> Section("table", << Sub(1, 1), Ent(100, 0, "n") >>, 30, 20, TRUE))
        @@ (20 :> Section("stream", <<>>, pv2, None, TRUE))
        @@ (30 :> s3)
        @@ (40 :> Section(kd4, <<>>, pv4, None, TRUE))
        @@ (50 :> Section("table", << Sub(2, 1), Ent(200, 1, "n") >>, None, None, TRUE))] :
        pv2 \in {None, 50},
        s3 \in { Section("table", <<>>, pv, xs, TRUE) : pv \in {None, 50}, xs \in {None, 40} }
               \cup { Section("stream", <<>>, pv, None, TRUE) : pv \in {None, 40} },
        kd4 \in {"table", "stream"},
        pv4 \in {None, 50} }

\* readReferenceData up to the loop: xrefOffset is the startxref offset
InitXref ==
    /\ XrefOthersIdle
    /\ xfile \in GraphFiles \cup EntryFiles \cup HybridFiles
    /\ xrefOffset = xfile.start
    /\ startXrefPositions = << xfile.start >>
    /\ backward_compatibility = FALSE
    /\ trailerDict = NilDict
    /\ getRoot = FALSE
    /\ xrefs = <<>>
    /\ curObjIdx = -1
    /\ insideSubsection = FALSE
    /\ lineIdx = 1
    /\ parsedAt = <<>>
    /\ xpc = "seek"

\* the section the loader is reading
CurSection == xfile.sections[parsedAt[Len(parsedAt)]]

\* a faulty variant of findXrefPosition: only the latest offset is compared
findXrefPositionLast(list, val) == list[Len(list)] = val

\* findXrefPosition
findXrefPosition(list, val) == \E i \in 1..Len(list) : list[i] = val

\* the end of an iteration: break when the offset was seen, else remember it
\* and go round
FoundOrContinue(offset) ==
    IF findXrefPosition(startXrefPositions, offset)
    THEN xpc' = "nil" /\ UNCHANGED startXrefPositions
    ELSE xpc' = "seek" /\ startXrefPositions' = Append(startXrefPositions, offset)

\* a faulty variant of Loads: an equal generation loads too
LoadsEqual(objNum, gen) == objNum \notin DOMAIN xrefs \/ gen >= xrefs[objNum].generation

\* load if not existing or of a higher generation than the one recorded
Loads(objNum, gen) == objNum \notin DOMAIN xrefs \/ gen > xrefs[objNum].generation

\* Seek(xrefOffset) and the first byte: nothing to read, a classic table, or
\* an object that must be a cross-reference stream, whose Prev is taken before
\* its entries are read
WalkSeek ==
    /\ xpc = "seek"
    /\ IF xrefOffset \notin DOMAIN xfile.sections
       THEN /\ xpc' = "err"
            /\ UNCHANGED <<xrefOffset, parsedAt, lineIdx, curObjIdx, insideSubsection>>
       ELSE LET sec == xfile.sections[xrefOffset]
                prev == IF backward_compatibility THEN trailerDict.prev ELSE sec.prev
            IN  /\ parsedAt' = Append(parsedAt, xrefOffset)
                /\ lineIdx' = 1
                /\ curObjIdx' = -1
                /\ insideSubsection' = FALSE
                /\ IF sec.kind = "table"
                   THEN xpc' = "table" /\ UNCHANGED xrefOffset
                   ELSE IF prev = NotInt THEN xpc' = "nil" /\ UNCHANGED xrefOffset
                   ELSE /\ xpc' = "stream"
                        /\ xrefOffset' = IF prev = None THEN xrefOffset ELSE prev
    /\ UNCHANGED <<xfile, startXrefPositions, backward_compatibility, trailerDict,
                   getRoot, xrefs, xrefOthers>>

\* readXrefTable: a subsection line
XrefSubsection ==
    /\ xpc = "table"
    /\ lineIdx <= Len(CurSection.lines)
    /\ CurSection.lines[lineIdx].l = "sub"
    /\ curObjIdx' = CurSection.lines[lineIdx].num
    /\ insideSubsection' = TRUE
    /\ lineIdx' = lineIdx + 1
    /\ UNCHANGED <<xfile, xrefOffset, startXrefPositions, backward_compatibility,
                   trailerDict, getRoot, xrefs, parsedAt, xpc, xrefOthers>>

\* readXrefTable: an entry line
XrefTableEntry ==
    /\ xpc = "table"
    /\ lineIdx <= Len(CurSection.lines)
    /\ CurSection.lines[lineIdx].l = "ent"
    /\ LET e == CurSection.lines[lineIdx] IN
       IF ~insideSubsection
       THEN xpc' = "err" /\ UNCHANGED <<xrefs, curObjIdx, lineIdx>>
       ELSE /\ xrefs' =
                 IF e.c = "n" /\ e.a > 1 /\ Loads(curObjIdx, e.b)
                 THEN (curObjIdx :> XrefObject(curObjIdx, "XREF_TABLE_ENTRY", e.a, e.b, 0, 0))
                          @@ xrefs
                 ELSE xrefs
            /\ curObjIdx' = curObjIdx + 1
            /\ lineIdx' = lineIdx + 1
            /\ UNCHANGED xpc
    /\ UNCHANGED <<xfile, xrefOffset, startXrefPositions, backward_compatibility,
                   trailerDict, getRoot, insideSubsection, parsedAt, xrefOthers>>

\* the trailer dictionary after the table: the first one is kept, the Root is
\* taken once, XRefStm or else Prev gives the next offset
XrefTrailer ==
    /\ xpc = "table"
    /\ lineIdx > Len(CurSection.lines)
    /\ LET dict == CurSection
           takeRoot == ~getRoot /\ dict.root
       IN  /\ trailerDict' = IF takeRoot \/ trailerDict = NilDict THEN dict ELSE trailerDict
           /\ getRoot' = (getRoot \/ dict.root)
           /\ IF dict.xrefStm # None
              THEN IF dict.xrefStm = NotInt
                   THEN /\ xpc' = "err"
                        /\ UNCHANGED <<xrefOffset, backward_compatibility, startXrefPositions>>
                   ELSE /\ xrefOffset' = dict.xrefStm
                        /\ backward_compatibility' = TRUE
                        /\ FoundOrContinue(dict.xrefStm)
              ELSE IF dict.prev # None
              THEN IF dict.prev = NotInt
                   THEN /\ xpc' = "err"
                        /\ UNCHANGED <<xrefOffset, backward_compatibility, startXrefPositions>>
                   ELSE /\ xrefOffset' = dict.prev
                        /\ UNCHANGED backward_compatibility
                        /\ FoundOrContinue(dict.prev)
              ELSE /\ UNCHANGED <<xrefOffset, backward_compatibility>>
                   /\ FoundOrContinue(xrefOffset)
    /\ UNCHANGED <<xfile, xrefs, curObjIdx, insideSubsection, lineIdx, parsedAt, xrefOthers>>

\* readXrefStream: one entry
XrefStreamEntry ==
    /\ xpc = "stream"
    /\ lineIdx <= Len(CurSection.lines)
    /\ LET e == CurSection.lines[lineIdx] IN
       xrefs' =
          IF e.c = "1" /\ Loads(e.num, e.b)
          THEN (e.num :> XrefObject(e.num, "XREF_TABLE_ENTRY", e.a, e.b, 0, 0)) @@ xrefs
          ELSE IF e.c = "2" /\ e.num \notin DOMAIN xrefs
          THEN (e.num :> XrefObject(e.num, "XREF_OBJECT_STREAM", 0, 0, e.a, e.b)) @@ xrefs
          ELSE xrefs
    /\ lineIdx' = lineIdx + 1
    /\ UNCHANGED <<xfile, xrefOffset, startXrefPositions, backward_compatibility,
                   trailerDict, getRoot, curObjIdx, insideSubsection, parsedAt, xpc,
                   xrefOthers>>

\* after the entries of a stream: the Root is taken once, then the offset
\* set from Prev is looked up
XrefStreamEnd ==
    /\ xpc = "stream"
    /\ lineIdx > Len(CurSection.lines)
    /\ trailerDict' = IF ~getRoot /\ CurSection.root THEN CurSection ELSE trailerDict
    /\ getRoot' = (getRoot \/ CurSection.root)
    /\ FoundOrContinue(xrefOffset)
    /\ UNCHANGED <<xfile, xrefOffset, backward_compatibility, xrefs, curObjIdx,
                   insideSubsection, lineIdx, parsedAt, xrefOthers>>

\* NewParser after readReferenceData: an error is passed on, an empty table
\* is an error, else the parser is returned
NewParserReturn ==
    /\ xpc \in {"nil", "err"}
    /\ xpc' = IF xpc = "err" \/ DOMAIN xrefs = {} THEN "failed" ELSE "loaded"
    /\ UNCHANGED <<xfile, xrefOffset, startXrefPositions, backward_compatibility,
                   trailerDict, getRoot, xrefs, curObjIdx, insideSubsection, lineIdx,
                   parsedAt, xrefOthers>>

NextXref ==
    \/ WalkSeek \/ XrefSubsection \/ XrefTableEntry \/ XrefTrailer
    \/ XrefStreamEntry \/ XrefStreamEnd \/ NewParserReturn

SpecXref == InitXref /\ [][NextXref]_vars

\* the loader is sequential code: a step that can be taken is taken
SpecXrefFair == InitXref /\ [][NextXref]_vars /\ WF_vars(NextXref)

\* ---- properties of the cross-reference loader

NoDuplicates(s) == \A i, j \in 1..Len(s) : i # j => s[i] # s[j]

\* this step ends the reading of a section without an error
LeavesSection == xpc \in {"table", "stream"} /\ xpc' \in {"seek", "nil"}

\* the section just read has neither Prev nor XRefStm
NoPointer == CurSection.prev = None /\ CurSection.xrefStm = None

\* the dictionary the loader takes the next offset from has neither: for a
\* stream read after an XRefStm was followed that is the remembered trailer
NoPointerConsulted ==
    IF CurSection.kind = "table" THEN NoPointer
    ELSE IF backward_compatibility THEN trailerDict.prev = None
    ELSE CurSection.prev = None

\* a next offset that was visited ends the walk with no error and leaves the
\* entries as they are
CycleEndsSilently ==
    (LeavesSection /\ findXrefPosition(startXrefPositions, xrefOffset'))
        => (xpc' = "nil" /\ xrefs' = xrefs)

WalkEnded == xpc \in {"loaded", "failed"}

\* C15 as stated: the walk terminates, no offset is parsed twice, a section
\* without Prev and XRefStm ends the walk, a visited next offset ends it with
\* no error.
C15_WalkTerminates ==
    /\ [](NoDuplicates(parsedAt))
    /\ [][(LeavesSection /\ NoPointer) => xpc' = "nil"]_vars
    /\ [][CycleEndsSilently]_vars
    /\ <>WalkEnded

\* C15 amended: the same, where the section that ends the walk is one whose
\* consulted dictionary gives no next offset.
C15_WalkTerminatesConsulted ==
    /\ [](NoDuplicates(parsedAt))
    /\ [][(LeavesSection /\ NoPointerConsulted) => xpc' = "nil"]_vars
    /\ [][CycleEndsSilently]_vars
    /\ <>WalkEnded

\* three sections were parsed, the last pointing back at a visited one, and the
\* parser was returned
C15_Witness ==
    /\ xpc = "loaded"
    /\ Len(parsedAt) > 2
    /\ CurSection.prev \in {10, 20}

\* the offsets of the sections on the chain from off: a classic section leads
\* to its XRefStm if it has one, else to its Prev; the stream reached from the
\* XRefStm of the section at hybrid leads to that section's Prev; any other
\* stream leads to its own Prev; the chain ends at an offset already on it
RECURSIVE ChainFrom(_, _, _)
ChainFrom(off, hybrid, seen) ==
    IF off \in seen \/ off \notin DOMAIN xfile.sections THEN seen
    ELSE LET sec == xfile.sections[off]
             seen2 == seen \cup {off}
         IN  IF sec.kind = "table"
             THEN IF sec.xrefStm # None
                  THEN ChainFrom(sec.xrefStm, off, seen2)
                  ELSE ChainFrom(sec.prev, None, seen2)
             ELSE IF hybrid # None
                  THEN ChainFrom(xfile.sections[hybrid].prev, None, seen2)
                  ELSE ChainFrom(sec.prev, None, seen2)

\* C22: when the walk ends without an error, every section on the chain from
\* the startxref offset was loaded, also in a file with two or more hybrid
\* sections.
C22_LoadsWholeChain ==
    xpc = "nil" =>
        \A off \in ChainFrom(xfile.start, None, {}) :
            \E k \in 1..Len(parsedAt) : parsedAt[k] = off

\* the step reads a classic entry that is free or has an offset of at most 1
ReadsUnusableEntry ==
    /\ xpc = "table"
    /\ lineIdx <= Len(CurSection.lines)
    /\ CurSection.lines[lineIdx].l = "ent"
    /\ (CurSection.lines[lineIdx].c # "n" \/ CurSection.lines[lineIdx].a <= 1)

\* the step reads a compressed entry of a stream
ReadsCompressedEntry ==
    /\ xpc = "stream"
    /\ lineIdx <= Len(CurSection.lines)
    /\ CurSection.lines[lineIdx].c = "2"

C16_Step ==
    /\ DOMAIN xrefs \subseteq DOMAIN xrefs'
    /\ \A n \in DOMAIN xrefs :
          xrefs'[n] # xrefs[n] =>
              /\ xrefs'[n].xtype = "XREF_TABLE_ENTRY"
              /\ xrefs'[n].generation > xrefs[n].generation
    /\ ReadsUnusableEntry => xrefs' = xrefs
    /\ ReadsCompressedEntry =>
          \A n \in DOMAIN xrefs : xrefs'[n] = xrefs[n]

\* C16: an entry is never removed and is replaced only by an in-use entry of a
\* strictly greater generation; free entries and classic entries with an
\* offset of at most 1 are not stored; a compressed entry replaces nothing.
C16_EntryReplacement == [][C16_Step]_vars

\* the newer section recorded object 1 at generation 0 and the older section
\* replaced it with generation 4
C16_Witness ==
    /\ Len(parsedAt) = 2
    /\ xfile.sections[10].lines = << Sub(1, 2), Ent(100, 0, "n") >>
    /\ 1 \in DOMAIN xrefs
    /\ xrefs[1].generation = 4

\* ---- after loading

\* C17: once the parser is returned, every in-use entry of the table points at
\* an indirect object whose header has the entry's object number and
\* generation.
C17_EntriesMatchObjects ==
    xpc = "loaded" =>
        \A n \in DOMAIN xrefs :
            xrefs[n].xtype = "XREF_TABLE_ENTRY" =>
                LET o == ParseIndirectObject(xrefs[n].offset) IN
                /\ o.ok
                /\ o.ObjectNumber = xrefs[n].objectNumber
                /\ o.GenerationNumber = xrefs[n].generation

-----------------------------------------------------------------------------
(* PdfReader.traceToObject (model/reader.go:699-723) *)

MaxObjs == 3

\* the address of the object the caller passes in; the object the parser keeps
\* for object number n sits at address n
CallerPtr == 0

\* what the parser holds for one object number: the resolved object, or
\* nothing it can parse
Resolved(obj) == [ok |-> TRUE, obj |-> obj]
Unparsable == [ok |-> FALSE, obj |-> PdfObjectOther(None)]

\* the null object a lookup gives for a free entry
NullObject == PdfObjectOther(None)

\* parser.LookupByReference: the object kept for the reference's object
\* number, the same object at every lookup
LookupByReference(ref) == objTable[ref.ObjectNumber]

\* what a lookup of object n gives: the indirect object or stream object
\* parsed at its offset (whatever it wraps, the wrapper is no reference), the
\* null object of a free entry, or the error of an object that does not parse
SlotInputs(n) == {Resolved(PdfObjectOther(n)), Resolved(NullObject), Unparsable}

\* the caller passes a reference it holds itself, an object that is no
\* reference, or an object it got from the parser
ArgumentInputs(table) ==
    {PdfObjectReference(CallerPtr, m, g) : m \in 1..MaxObjs, g \in {0, 1}}
        \cup {PdfObjectOther(CallerPtr)}
        \cup {table[n].obj : n \in {m \in 1..MaxObjs : table[m].ok}}

\* traceToObject: refList := map[*PdfObjectReference]bool{}
InitTrace ==
    /\ TraceOthersIdle
    /\ \E table \in [1..MaxObjs -> UNION {SlotInputs(n) : n \in 1..MaxObjs}] :
          /\ \A n \in 1..MaxObjs : table[n] \in SlotInputs(n)
          /\ objTable = table
          /\ traceObj \in ArgumentInputs(table)
    /\ refList = {}
    /\ followed = <<>>
    /\ traceStatus = "run"

\* the key of a reference in refList: the map is keyed by *PdfObjectReference
RefKey(ref) == ref.ptr

\* a faulty variant of TraceReturnObj: the object is returned as it is, a
\* reference too
TraceReturnAny ==
    /\ traceStatus = "run"
    /\ traceStatus' = "obj"
    /\ UNCHANGED <<objTable, traceObj, refList, followed, traceOthers>>

\* if !isRef: return obj, nil
TraceReturnObj ==
    /\ traceStatus = "run"
    /\ ~traceObj.isRef
    /\ traceStatus' = "obj"
    /\ UNCHANGED <<objTable, traceObj, refList, followed, traceOthers>>

\* if isRef: a reference already in refList is a circular reference; else
\* refList[ref] = true, and the lookup fails (return nil, err) or gives the
\* object the wrapper goes on with
TraceReference ==
    /\ traceStatus = "run"
    /\ traceObj.isRef
    /\ IF RefKey(traceObj) \in refList
       THEN /\ traceStatus' = "circular"
            /\ UNCHANGED <<traceObj, refList, followed>>
       ELSE /\ refList' = refList \cup {RefKey(traceObj)}
            /\ followed' =
                  Append(followed, <<traceObj.ObjectNumber, traceObj.GenerationNumber>>)
            /\ IF LookupByReference(traceObj).ok
               THEN /\ traceObj' = LookupByReference(traceObj).obj
                    /\ UNCHANGED traceStatus
               ELSE /\ traceStatus' = "err"
                    /\ UNCHANGED traceObj
    /\ UNCHANGED <<objTable, traceOthers>>

NextTrace == TraceReturnObj \/ TraceReference

SpecTrace == InitTrace /\ [][NextTrace]_vars

\* the trace is sequential code: a step that can be taken is taken
SpecTraceFair == InitTrace /\ [][NextTrace]_vars /\ WF_vars(NextTrace)

\* ---- properties of traceToObject

TraceEnded == traceStatus \in {"obj", "circular", "err"}

\* the next reference to be followed has a value that was followed before
ComesBack ==
    /\ traceStatus = "run"
    /\ traceObj.isRef
    /\ \E k \in 1..Len(followed) :
          followed[k] = <<traceObj.ObjectNumber, traceObj.GenerationNumber>>

LookupFailed ==
    /\ Len(followed) = 1
    /\ ~objTable[followed[1][1]].ok

-----------------------------------------------------------------------------
(* The inline-image data scanner of ParseInlineImage (unnamed/part_001:196-255) *)

MaxImgLen == 6

\* core.IsWhiteSpace: NUL, TAB, LF, FF, CR, SP
IsWhiteSpace(c) == c \in {0, 9, 10, 12, 13, 32}

\* a space, a line feed, 'E', 'I' and a byte that is none of them
ImgBytes == {32, 10, 69, 73, 120}

InitImg ==
    /\ ImgOthersIdle
    /\ imgData \in UNION {[1..n -> ImgBytes] : n \in 0..MaxImgLen}
    /\ imgPos = 0
    /\ imStream = <<>>
    /\ skipBytes = <<>>
    /\ imgState = 0
    /\ imgStatus = "scan"

\* c, err := this.reader.ReadByte() succeeded
ImgReads == imgStatus = "scan" /\ imgPos < Len(imgData)

ImgByte == imgData[imgPos + 1]

\* ReadByte fails at the end of the data: return nil, err
ImgReadFails ==
    /\ imgStatus = "scan"
    /\ imgPos >= Len(imgData)
    /\ imgStatus' = "err"
    /\ UNCHANGED <<imgData, imgPos, imStream, skipBytes, imgState, imgOthers>>

ImgState0 ==
    /\ ImgReads
    /\ imgState = 0
    /\ imgPos' = imgPos + 1
    /\ IF IsWhiteSpace(ImgByte)
       THEN skipBytes' = <<ImgByte>> /\ imgState' = 1 /\ imStream' = imStream
       ELSE imStream' = Append(imStream, ImgByte) /\ UNCHANGED <<skipBytes, imgState>>
    /\ UNCHANGED <<imgData, imgStatus, imgOthers>>

ImgState1 ==
    /\ ImgReads
    /\ imgState = 1
    /\ imgPos' = imgPos + 1
    /\ IF ImgByte = 69
       THEN skipBytes' = Append(skipBytes, ImgByte) /\ imgState' = 2 /\ imStream' = imStream
       ELSE /\ imStream' = imStream \o Append(skipBytes, ImgByte)
            /\ skipBytes' = <<>>
            /\ imgState' = IF IsWhiteSpace(ImgByte) THEN 1 ELSE 0
    /\ UNCHANGED <<imgData, imgStatus, imgOthers>>

ImgState2 ==
    /\ ImgReads
    /\ imgState = 2
    /\ imgPos' = imgPos + 1
    /\ IF ImgByte = 73
       THEN skipBytes' = Append(skipBytes, ImgByte) /\ imgState' = 3 /\ imStream' = imStream
       ELSE /\ imStream' = imStream \o Append(skipBytes, ImgByte)
            /\ skipBytes' = <<>>
            /\ imgState' = 0
    /\ UNCHANGED <<imgData, imgStatus, imgOthers>>

ImgState3 ==
    /\ ImgReads
    /\ imgState = 3
    /\ imgPos' = imgPos + 1
    /\ IF IsWhiteSpace(ImgByte)
       THEN /\ skipBytes' = Append(skipBytes, ImgByte)
            /\ imgStatus' = "found"
            /\ UNCHANGED <<imStream, imgState>>
       ELSE /\ imStream' = imStream \o Append(skipBytes, ImgByte)
            /\ skipBytes' = <<>>
            /\ imgState' = 0
            /\ imgStatus' = imgStatus
    /\ UNCHANGED <<imgData, imgOthers>>

NextImg == ImgReadFails \/ ImgState0 \/ ImgState1 \/ ImgState2 \/ ImgState3

SpecImg == InitImg /\ [][NextImg]_vars

\* ---- properties of the scanner

\* <ws> E I <ws> stands at position k of the data
TerminatorAt(k) ==
    /\ k >= 1 /\ k + 3 <= Len(imgData)
    /\ IsWhiteSpace(imgData[k])
    /\ imgData[k + 1] = 69
    /\ imgData[k + 2] = 73
    /\ IsWhiteSpace(imgData[k + 3])

FirstTerminator ==
    IF \E k \in 1..Len(imgData) : TerminatorAt(k)
    THEN CHOOSE k \in 1..Len(imgData) :
             TerminatorAt(k) /\ \A j \in 1..(k - 1) : ~TerminatorAt(j)
    ELSE 0

\* C21: the scanner stops at the first <ws> E I <ws> of the data and returns
\* the bytes before that occurrence's leading whitespace; it fails only when
\* the data has no such occurrence; and at every step the image data followed
\* by the skip bytes is what was read so far.
C21_StopsAtFirstTerminator ==
    /\ imgStatus \in {"scan", "found", "err"} =>
           imStream \o skipBytes = SubSeq(imgData, 1, imgPos)
    /\ imgStatus = "found" =>
           /\ FirstTerminator # 0
           /\ imgPos = FirstTerminator + 3
           /\ imStream = SubSeq(imgData, 1, FirstTerminator - 1)
    /\ imgStatus = "err" => FirstTerminator = 0

-----------------------------------------------------------------------------
(* The stream length check of ParseIndirectObject (core/parser.go:256-293)  *)
(* with xrefNextObjectOffset (core/parser.go:111-119)                       *)

MaxXrefOffsets == 3

\* the size of "\nendstream\nendobj\n" as the code counts it
EndMarkerLen == 17

SlOffsetInputs == {0, 5, 20, 27, 40, 60}

SlLengthInputs == {-1, 0, 13, 14, 30, 100}

\* after the stream keyword: Length is an integer, the offset is taken
InitSl ==
    /\ SlOthersIdle
    /\ slOffsets \in {S \in SUBSET SlOffsetInputs : Cardinality(S) <= MaxXrefOffsets}
    /\ slTodo = slOffsets
    /\ nextOffset = 0
    /\ streamStartOffset \in {10, 30}
    /\ dictLength \in SlLengthInputs
    /\ streamLength = dictLength
    /\ slFileLen \in {50, 200}
    /\ slStatus = IF dictLength < 0 THEN "err" ELSE "scan"

\* a faulty variant of CloserOffset: any later object replaces the one found
CloserOffsetAny(xoff, offset, next) == xoff > offset

\* xref.offset > offset && (xref.offset < nextOffset || nextOffset == 0)
CloserOffset(xoff, offset, next) == xoff > offset /\ (xoff < next \/ next = 0)

\* xrefNextObjectOffset: one round of the range over parser.xrefs, a map,
\* which hands out its entries in any order
NextObjectOffsetStep ==
    /\ slStatus = "scan"
    /\ \E xoff \in slTodo :
          /\ slTodo' = slTodo \ {xoff}
          /\ nextOffset' = IF CloserOffset(xoff, streamStartOffset, nextOffset)
                           THEN xoff ELSE nextOffset
    /\ UNCHANGED <<slOffsets, streamStartOffset, streamLength, dictLength, slFileLen,
                   slStatus, slOthers>>

\* the length the stream is read with
CorrectedLength ==
    IF streamStartOffset + streamLength > nextOffset /\ nextOffset > streamStartOffset
    THEN nextOffset - streamStartOffset - EndMarkerLen
    ELSE streamLength

\* the correction is negative: return nil, err
LengthPastBoundaries ==
    /\ slStatus = "scan"
    /\ slTodo = {}
    /\ CorrectedLength < 0
    /\ slStatus' = "err"
    /\ UNCHANGED <<slOffsets, slTodo, nextOffset, streamStartOffset, streamLength,
                   dictLength, slFileLen, slOthers>>

\* the length is kept or corrected, and the stream is read
ReadStream ==
    /\ slStatus = "scan"
    /\ slTodo = {}
    /\ CorrectedLength >= 0
    /\ streamLength' = CorrectedLength
    /\ dictLength' = CorrectedLength
    /\ slStatus' = IF streamStartOffset + CorrectedLength > slFileLen THEN "eof" ELSE "stream"
    /\ UNCHANGED <<slOffsets, slTodo, nextOffset, streamStartOffset, slFileLen, slOthers>>

NextSl == NextObjectOffsetStep \/ LengthPastBoundaries \/ ReadStream

SpecSl == InitSl /\ [][NextSl]_vars

\* ---- properties of the stream length check

\* the offsets of the table after the start of the stream
LaterOffsets == {o \in slOffsets : o > streamStartOffset}

ClosestOf(S) == CHOOSE m \in S : \A o \in S : m <= o

\* C23: the stream is read with its Length when the table has no later object
\* or the Length ends at or before the closest one; a Length that overshoots
\* becomes, in the dictionary too, the distance to the closest later object
\* less 17, and a negative result is an error with no stream; the bytes read
\* never reach past the closest later object.  Stated against the Length of
\* the input, which the first state of a behaviour holds in streamLength.
C23_Step ==
    (slStatus = "scan" /\ slStatus' # "scan") =>
        LET len == streamLength
            next == IF LaterOffsets = {} THEN 0 ELSE ClosestOf(LaterOffsets)
        IN  IF LaterOffsets = {} \/ streamStartOffset + len <= next
            THEN /\ slStatus' \in {"stream", "eof"}
                 /\ streamLength' = len /\ dictLength' = len
            ELSE IF next - streamStartOffset - EndMarkerLen < 0
            THEN slStatus' = "err"
            ELSE /\ slStatus' \in {"stream", "eof"}
                 /\ streamLength' = next - streamStartOffset - EndMarkerLen
                 /\ dictLength' = streamLength'

C23_LengthWithinNextObject ==
    /\ [][C23_Step]_vars
    /\ [](slStatus = "stream" /\ LaterOffsets # {}
            => streamStartOffset + streamLength <= ClosestOf(LaterOffsets))

\* a Length that overshot the later object at 60 was corrected to 33, which
\* is no Length of the input
C23_Witness ==
    /\ slStatus = "stream"
    /\ streamStartOffset = 10
    /\ slOffsets = {0, 5, 60}
    /\ nextOffset = 60
    /\ streamLength = 33
    /\ dictLength = 33

-----------------------------------------------------------------------------
(* PdfParser.ParseDict (core/parser.go:1127-1191): the entries of a          *)
(* dictionary, token by token.  A name is the sequence of its characters.   *)

MaxDictTokens == 4

NameKey(nm) == [t |-> "name", nm |-> nm, v |-> ""]
Value(v) == [t |-> "value", nm |-> <<>>, v |-> v]

\* MakeNull()
MakeNull == "null"

\* /A, /Fnull, /null, and the objects 5 and null
DictTokenInputs ==
    { NameKey(<<65>>), NameKey(<<70, 110, 117, 108, 108>>), NameKey(<<110, 117, 108, 108>>),
      Value("5"), Value(MakeNull) }

InitDict ==
    /\ DictOthersIdle
    /\ dictTokens \in SeqsUpTo(DictTokenInputs, MaxDictTokens)
    /\ dictI = 1
    /\ readingKey = TRUE
    /\ readingValue = FALSE
    /\ keyName = <<>>
    /\ pdfDict = <<>>
    /\ dictStatus = "loop"

\* dict.Set
DictSet(d, key, val) == [k \in DOMAIN d \cup {key} |-> IF k = key THEN val ELSE d[k]]

\* len(keyName) > 4 && keyName[len(keyName)-4:] == "null"
EndsInNull(nm) ==
    Len(nm) > 4 /\ SubSeq(nm, Len(nm) - 3, Len(nm)) = <<110, 117, 108, 108>>

\* currCh == '/' && readingKey: the name is the key; the repair stores the
\* truncated key with null and goes on reading a key
DictReadKey ==
    /\ dictStatus = "loop"
    /\ dictI <= Len(dictTokens)
    /\ dictTokens[dictI].t = "name"
    /\ readingKey
    /\ LET nm == dictTokens[dictI].nm IN
          /\ keyName' = nm
          /\ IF EndsInNull(nm)
             THEN /\ pdfDict' = DictSet(pdfDict, SubSeq(nm, 1, Len(nm) - 4), MakeNull)
                  /\ readingKey' = TRUE
                  /\ readingValue' = FALSE
             ELSE /\ pdfDict' = pdfDict
                  /\ readingKey' = FALSE
                  /\ readingValue' = TRUE
    /\ dictI' = dictI + 1
    /\ UNCHANGED <<dictTokens, dictStatus, dictOthers>>

\* readingValue && !IsWhiteSpace(currCh): parseObject gives the value, a name
\* included
DictReadValue ==
    /\ dictStatus = "loop"
    /\ dictI <= Len(dictTokens)
    /\ readingValue
    /\ ~(dictTokens[dictI].t = "name" /\ readingKey)
    /\ pdfDict' = DictSet(pdfDict, keyName,
                       IF dictTokens[dictI].t = "name" THEN dictTokens[dictI].nm
                       ELSE dictTokens[dictI].v)
    /\ readingKey' = TRUE
    /\ readingValue' = FALSE
    /\ dictI' = dictI + 1
    /\ UNCHANGED <<dictTokens, keyName, dictStatus, dictOthers>>

\* no branch of the loop takes the bytes of an object met while a key is
\* expected: they are passed over
DictPassOver ==
    /\ dictStatus = "loop"
    /\ dictI <= Len(dictTokens)
    /\ dictTokens[dictI].t = "value"
    /\ ~readingValue
    /\ dictI' = dictI + 1
    /\ UNCHANGED <<dictTokens, readingKey, readingValue, keyName, pdfDict, dictStatus,
                   dictOthers>>

\* prevCh == '>' && currCh == '>', met while a key is expected: return dict, nil
DictEnd ==
    /\ dictStatus = "loop"
    /\ dictI > Len(dictTokens)
    /\ ~readingValue
    /\ dictStatus' = "done"
    /\ UNCHANGED <<dictTokens, dictI, readingKey, readingValue, keyName, pdfDict, dictOthers>>

\* the first '>' of the end, met while a value is expected, goes to
\* parseObject, which knows no object that starts so ("Object parsing error -
\* unexpected pattern"): return nil, err
DictValueMissing ==
    /\ dictStatus = "loop"
    /\ dictI > Len(dictTokens)
    /\ readingValue
    /\ dictStatus' = "err"
    /\ pdfDict' = <<>>
    /\ UNCHANGED <<dictTokens, dictI, readingKey, readingValue, keyName, dictOthers>>

NextDict == DictReadKey \/ DictReadValue \/ DictPassOver \/ DictEnd \/ DictValueMissing

SpecDict == InitDict /\ [][NextDict]_vars

\* ---- properties of ParseDict

\* the name ends in null after at least one other character
NullSuffixed(nm) ==
    Len(nm) > 4 /\ SubSeq(nm, Len(nm) - 3, Len(nm)) = <<110, 117, 108, 108>>

\* the tokens from k on are keys each followed by a value, except that a key
\* ending in null may stand without one
RECURSIVE KeysAndValues(_)
KeysAndValues(k) ==
    IF k > Len(dictTokens) THEN TRUE
    ELSE IF dictTokens[k].t # "name" THEN FALSE
    ELSE IF k < Len(dictTokens) /\ dictTokens[k + 1].t = "value" THEN KeysAndValues(k + 2)
    ELSE NullSuffixed(dictTokens[k].nm) /\ KeysAndValues(k + 1)

\* the dictionary of such tokens: a key followed by a value is stored with it
\* under its full name; a key ending in null that no value follows is stored
\* truncated with null
RECURSIVE DictOfTokens(_, _)
DictOfTokens(k, d) ==
    IF k > Len(dictTokens) THEN d
    ELSE IF k < Len(dictTokens) /\ dictTokens[k + 1].t = "value"
    THEN DictOfTokens(k + 2, DictSet(d, dictTokens[k].nm, dictTokens[k + 1].v))
    ELSE DictOfTokens(k + 1,
             DictSet(d, SubSeq(dictTokens[k].nm, 1, Len(dictTokens[k].nm) - 4), MakeNull))

\* C24: the repair is applied only to a key ending in null that no value
\* follows; a key ending in null that is followed by a value is stored under
\* its full name with that value.
C24_NullRepairOnlyWithoutValue ==
    (dictStatus = "done" /\ KeysAndValues(1)) => pdfDict = DictOfTokens(1, <<>>)

-----------------------------------------------------------------------------
(* PdfReader.buildPageList (model/reader.go:728-804), called by             *)
(* loadStructure on the Pages object of the root.  A node is named by its   *)
(* object number; a Resources dictionary by the number of the node that     *)
(* declares it, 0 standing for none.                                        *)

MaxKids == 2

PageNode(type, kids, res) == [type |-> type, kids |-> kids, res |-> res]

\* node 1 is the Pages object of the root; node 2 is an inner node, a page or
\* an object of another type; nodes 3 and 4 are pages
PageTreeInputs ==
    { (1 :> n1) @@ (2 :> n2) @@ (3 :> n3) @@ (4 :> n4) :
        n1 \in { PageNode("Pages", ks, rs) :
                    ks \in SeqsUpTo({2, 3, 4}, MaxKids), rs \in {0, 1} },
        n2 \in { PageNode("Pages", ks, rs) :
                    ks \in SeqsUpTo({1, 3, 4}, MaxKids), rs \in {0, 2} }
               \cup { PageNode("Page", <<>>, 0), PageNode("Page", <<>>, 2),
                      PageNode("Font", <<>>, 0) },
        n3 \in { PageNode("Page", <<>>, 0), PageNode("Page", <<>>, 3) },
        n4 \in { PageNode("Page", <<>>, 0), PageNode("Page", <<>>, 4) } }

\* one call of buildPageList: its node, its parent, its resource and the
\* index of the kid the loop stands at (0 before the loop)
Frame(node, parent, resource, i) ==
    [node |-> node, parent |-> parent, resource |-> resource, i |-> i]

\* loadStructure: this.buildPageList(ppages, nil, nil, traversedPageNodes)
InitBpl ==
    /\ BplOthersIdle
    /\ pageNodes \in PageTreeInputs
    /\ bplStack = << Frame(1, 0, 0, 0) >>
    /\ traversedPageNodes = {}
    /\ rdPageList = <<>>
    /\ rdPageResources = <<>>
    /\ parentSet = <<>>
    /\ bplStatus = "run"

BplTop == bplStack[Len(bplStack)]

BplPop == SubSeq(bplStack, 1, Len(bplStack) - 1)

\* a faulty variant of EffectiveResource: nothing is inherited
EffectiveResourceOwn(nd, inherited) == nd.res

\* if overrid, ok := resourceObj.(*PdfObjectDictionary); ok { resource = overrid }
EffectiveResource(nd, inherited) == IF nd.res # 0 THEN nd.res ELSE inherited

\* the call returns nil to its caller; the outermost return ends the build
BplReturn(stack) ==
    /\ bplStack' = stack
    /\ bplStatus' = IF stack = <<>> THEN "nil" ELSE "run"

\* the node was traversed: return nil
BplSkipTraversed ==
    /\ bplStatus = "run"
    /\ BplTop.i = 0
    /\ BplTop.node \in traversedPageNodes
    /\ BplReturn(BplPop)
    /\ UNCHANGED <<pageNodes, traversedPageNodes, rdPageList, rdPageResources, parentSet,
                   bplOthers>>

\* the node is neither Pages nor Page: the error goes up through every call
BplNotAPage ==
    /\ bplStatus = "run"
    /\ BplTop.i = 0
    /\ BplTop.node \notin traversedPageNodes
    /\ pageNodes[BplTop.node].type \notin {"Pages", "Page"}
    /\ traversedPageNodes' = traversedPageNodes \cup {BplTop.node}
    /\ bplStack' = <<>>
    /\ bplStatus' = "err"
    /\ UNCHANGED <<pageNodes, rdPageList, rdPageResources, parentSet, bplOthers>>

\* the Parent entry is set when the call has a parent
BplSetParent(f) ==
    parentSet' = IF f.parent # 0 THEN (f.node :> f.parent) @@ parentSet ELSE parentSet

\* a Pages node: mark it, take its Resources, set Parent, enter the loop
BplEnterPages ==
    /\ bplStatus = "run"
    /\ BplTop.i = 0
    /\ BplTop.node \notin traversedPageNodes
    /\ pageNodes[BplTop.node].type = "Pages"
    /\ traversedPageNodes' = traversedPageNodes \cup {BplTop.node}
    /\ BplSetParent(BplTop)
    /\ bplStack' = Append(BplPop,
                          Frame(BplTop.node, BplTop.parent,
                                EffectiveResource(pageNodes[BplTop.node], BplTop.resource), 1))
    /\ UNCHANGED <<pageNodes, rdPageList, rdPageResources, bplStatus, bplOthers>>

\* a Page node: mark it, take its Resources, set Parent, append to both lists
BplPage ==
    /\ bplStatus = "run"
    /\ BplTop.i = 0
    /\ BplTop.node \notin traversedPageNodes
    /\ pageNodes[BplTop.node].type = "Page"
    /\ traversedPageNodes' = traversedPageNodes \cup {BplTop.node}
    /\ BplSetParent(BplTop)
    /\ rdPageList' = Append(rdPageList, BplTop.node)
    /\ rdPageResources' =
           Append(rdPageResources, EffectiveResource(pageNodes[BplTop.node], BplTop.resource))
    /\ BplReturn(BplPop)
    /\ UNCHANGED <<pageNodes, bplOthers>>

\* the loop over Kids: buildPageList(child, node, resource, traversedPageNodes)
BplKid ==
    /\ bplStatus = "run"
    /\ BplTop.i >= 1
    /\ BplTop.i <= Len(pageNodes[BplTop.node].kids)
    /\ bplStack' = Append(Append(BplPop, [BplTop EXCEPT !.i = @ + 1]),
                          Frame(pageNodes[BplTop.node].kids[BplTop.i], BplTop.node,
                                BplTop.resource, 0))
    /\ UNCHANGED <<pageNodes, traversedPageNodes, rdPageList, rdPageResources, parentSet,
                   bplStatus, bplOthers>>

\* the loop is over: return nil
BplKidsDone ==
    /\ bplStatus = "run"
    /\ BplTop.i > Len(pageNodes[BplTop.node].kids)
    /\ BplReturn(BplPop)
    /\ UNCHANGED <<pageNodes, traversedPageNodes, rdPageList, rdPageResources, parentSet,
                   bplOthers>>

NextBpl ==
    \/ BplSkipTraversed \/ BplNotAPage \/ BplEnterPages \/ BplPage \/ BplKid
    \/ BplKidsDone

SpecBpl == InitBpl /\ [][NextBpl]_vars

\* the build is sequential code: a step that can be taken is taken
SpecBplFair == InitBpl /\ [][NextBpl]_vars /\ WF_vars(NextBpl)

-----------------------------------------------------------------------------
(* Properties of buildPageList *)

\* the leaves in depth-first, left-to-right order, a node reached again
\* being passed over: the order the claim states, told from the tree alone
RECURSIVE DfsFrom(_, _), DfsKids(_, _, _)
DfsFrom(n, st) ==
    IF n \in st.seen THEN st
    ELSE LET st1 == [seen  |-> st.seen \cup {n},
                     pages |-> IF pageNodes[n].type = "Page"
                               THEN Append(st.pages, n) ELSE st.pages]
         IN  IF pageNodes[n].type = "Pages" THEN DfsKids(n, 1, st1) ELSE st1
DfsKids(n, i, st) ==
    IF i > Len(pageNodes[n].kids) THEN st
    ELSE DfsKids(n, i + 1, DfsFrom(pageNodes[n].kids[i], st))

\* the Resources of the node itself or of the nearest node above it, along
\* the Parent entries, that declares one; 0 when none does
RECURSIVE NearestResources(_)
NearestResources(n) ==
    IF pageNodes[n].res # 0 THEN pageNodes[n].res
    ELSE IF n \in DOMAIN parentSet THEN NearestResources(parentSet[n])
    ELSE 0

BplEnded == bplStatus \in {"nil", "err"}

\* C25: buildPageList ends on every Kids graph, cycles included; no node is
\* a page twice; the two lists have one length; every page's resources are
\* its own or those of the nearest declaring node above it; and a build that
\* returns nil has listed the leaves in depth-first, left-to-right order
C25_PageListBuild ==
    /\ <>BplEnded
    /\ [](bplStatus # "idle" =>
            /\ NoDuplicates(rdPageList)
            /\ Len(rdPageList) = Len(rdPageResources)
            /\ \A k \in 1..Len(rdPageList) :
                   rdPageResources[k] = NearestResources(rdPageList[k]))
    /\ [](bplStatus = "nil" =>
            rdPageList = DfsFrom(1, [seen |-> {}, pages |-> <<>>]).pages)

\* a tree with a cycle (node 2 names the root among its kids) whose first
\* page inherits from node 2 and whose second, a sibling of node 2, from the
\* root
C25_Witness ==
    /\ bplStatus = "nil"
    /\ pageNodes[2].kids = <<3, 1>>
    /\ rdPageList = <<3, 4>>
    /\ rdPageResources = <<2, 1>>

-----------------------------------------------------------------------------
(* PdfReader.ParseFonts (model/reader.go:569-638) with getFontEncoding      *)
(* (203-295) and getFontInfo (297-).  A font dictionary is told by what its *)
(* ToUnicode entry and its FontDescriptor are.                              *)

MaxPageFonts == 2

FontDictKinds ==
    {"absent", "ok", "untraceable", "notstream", "baddecode", "badcmap", "baddescriptor"}

\* a value of the Font dictionary of a page: a reference to object 1 or 2, a
\* direct dictionary, something else, or a reference that cannot be traced
FontValueInputs ==
    { [v |-> "ref", num |-> 1, kind |-> "absent"],
      [v |-> "ref", num |-> 2, kind |-> "absent"],
      [v |-> "dict", num |-> 0, kind |-> "ok"],
      [v |-> "dict", num |-> 0, kind |-> "badcmap"],
      [v |-> "other", num |-> 0, kind |-> "absent"],
      [v |-> "untraceable", num |-> 0, kind |-> "absent"] }

\* the fonts of a page come in the order the range over the Go map gives
\* them: every order is an input
FontPageInputs ==
    { [res |-> "nil", fonts |-> <<>>], [res |-> "nofonts", fonts |-> <<>>] }
    \cup { [res |-> "dict", fonts |-> fs] : fs \in SeqsUpTo(FontValueInputs, MaxPageFonts) }

\* the second page is one of a few
SecondFontPageInputs ==
    { [res |-> "nil", fonts |-> <<>>],
      [res |-> "dict", fonts |-> << [v |-> "ref", num |-> 1, kind |-> "absent"] >>],
      [res |-> "dict", fonts |-> << [v |-> "dict", num |-> 0, kind |-> "badcmap"] >>] }

InitFonts ==
    /\ FontsOthersIdle
    /\ \E k \in FontDictKinds : fontObjs = (1 :> k) @@ (2 :> "ok")
    /\ \E p1 \in FontPageInputs, p2 \in SecondFontPageInputs : fontPages = <<p1, p2>>
    /\ fpI = 1
    /\ fpJ = 1
    /\ pfFonts = <<>>
    /\ pfByIndexes = {}
    /\ parseFontsStatus = "run"

\* getFontEncoding: the error it returns, "" for nil
getFontEncoding(kind) ==
    CASE kind = "untraceable" -> "trace"
      [] kind = "notstream"   -> "toUnicode is not stream obj"
      [] kind = "baddecode"   -> "decode"
      [] kind = "badcmap"     -> "cmap"
      [] OTHER                -> ""

\* font.mCmap is assigned only when LoadCmapFromData succeeded
CmapLoaded(kind) == kind \in {"ok", "baddescriptor"}

\* getFontInfo: the error it returns, "" for nil
getFontInfo(kind) == IF kind = "baddescriptor" THEN "trace" ELSE ""

\* font = new(Font) ... this.getFontEncoding(font); this.getFontInfo(font):
\* both results are dropped by ParseFonts
NewFont(kind) ==
    [kind |-> kind, mCmap |-> CmapLoaded(kind),
     encodingErr |-> getFontEncoding(kind), infoErr |-> getFontInfo(kind)]

FontPage == fontPages[fpI]

FontValue == FontPage.fonts[fpJ]

\* the loop over the pages ends: return nil
FontsEnd ==
    /\ parseFontsStatus = "run"
    /\ fpI > Len(fontPages)
    /\ parseFontsStatus' = "nil"
    /\ UNCHANGED <<fontObjs, fontPages, fpI, fpJ, pfFonts, pfByIndexes, fontsOthers>>

\* a page with no resources, with a Font entry that is no dictionary, or
\* whose fonts are all seen: the next page
FontsNextPage ==
    /\ parseFontsStatus = "run"
    /\ fpI <= Len(fontPages)
    /\ \/ FontPage.res # "dict"
       \/ fpJ > Len(FontPage.fonts)
    /\ fpI' = fpI + 1
    /\ fpJ' = 1
    /\ UNCHANGED <<fontObjs, fontPages, pfFonts, pfByIndexes, parseFontsStatus, fontsOthers>>

FontAt ==
    /\ parseFontsStatus = "run"
    /\ fpI <= Len(fontPages)
    /\ FontPage.res = "dict"
    /\ fpJ <= Len(FontPage.fonts)

\* traceToObject fails, or the font is neither an indirect object nor a
\* dictionary: return the error
FontValueFails ==
    /\ FontAt
    /\ FontValue.v \in {"untraceable", "other"}
    /\ parseFontsStatus' = "err"
    /\ UNCHANGED <<fontObjs, fontPages, fpI, fpJ, pfFonts, pfByIndexes, fontsOthers>>

\* an indirect object already in mFontsByIndexes: the font is shared
FontShared ==
    /\ FontAt
    /\ FontValue.v = "ref"
    /\ FontValue.num \in pfByIndexes
    /\ fpJ' = fpJ + 1
    /\ UNCHANGED <<fontObjs, fontPages, fpI, pfFonts, pfByIndexes, parseFontsStatus,
                   fontsOthers>>

\* an indirect object seen for the first time
FontIndirect ==
    /\ FontAt
    /\ FontValue.v = "ref"
    /\ FontValue.num \notin pfByIndexes
    /\ pfByIndexes' = pfByIndexes \cup {FontValue.num}
    /\ pfFonts' = Append(pfFonts, NewFont(fontObjs[FontValue.num]))
    /\ fpJ' = fpJ + 1
    /\ UNCHANGED <<fontObjs, fontPages, fpI, parseFontsStatus, fontsOthers>>

\* a direct dictionary
FontDirect ==
    /\ FontAt
    /\ FontValue.v = "dict"
    /\ pfFonts' = Append(pfFonts, NewFont(FontValue.kind))
    /\ fpJ' = fpJ + 1
    /\ UNCHANGED <<fontObjs, fontPages, fpI, pfByIndexes, parseFontsStatus, fontsOthers>>

NextFonts ==
    \/ FontsEnd \/ FontsNextPage \/ FontValueFails \/ FontShared \/ FontIndirect
    \/ FontDirect

SpecFonts == InitFonts /\ [][NextFonts]_vars

\* C26: ParseFonts returns nil only when getFontEncoding and getFontInfo
\* succeeded for every font it loaded, so that no font is left with a CMap
\* that failed to load
C26_MalformedFontSurfaces ==
    parseFontsStatus = "nil" =>
        \A k \in 1..Len(pfFonts) :
            pfFonts[k].encodingErr = "" /\ pfFonts[k].infoErr = ""

-----------------------------------------------------------------------------
(* PdfParser.traceStreamLength (core/parser.go:121-147), called by          *)
(* ParseIndirectObject on the Length entry of a stream dictionary (line     *)
(* 249).  parser.Trace loads the object a reference names; loading a stream *)
(* object looks up its own Length through traceStreamLength again.          *)

MaxLookups == 3

\* an object a Length entry may name: an integer, an object that does not
\* parse, or a stream whose own Length is a reference to object k
LengthObjectKinds ==
    { [kind |-> "int", len |-> 0], [kind |-> "bad", len |-> 0],
      [kind |-> "stream", len |-> 1], [kind |-> "stream", len |-> 2] }

TslFrame(num, phase) == [num |-> num, phase |-> phase]

InitTsl ==
    /\ TslOthersIdle
    /\ lenObjs \in [1..2 -> LengthObjectKinds]
    /\ tslCalls \in SeqsUpTo({0, 1, 2}, MaxLookups)
    /\ tslStack = <<>>
    /\ streamLengthReferenceLookupInProgress = {}
    /\ tslCache = {}
    /\ tslResults = <<>>
    /\ tslStatus = "run"

TslTop == tslStack[Len(tslStack)]

TslBelow == SubSeq(tslStack, 1, Len(tslStack) - 1)

\* the parser meets the next stream: traceStreamLength(dict.Get("Length"))
TslCall ==
    /\ tslStatus = "run"
    /\ tslStack = <<>>
    /\ tslCalls # <<>>
    /\ tslStack' = << TslFrame(Head(tslCalls), "enter") >>
    /\ tslCalls' = Tail(tslCalls)
    /\ UNCHANGED <<lenObjs, streamLengthReferenceLookupInProgress, tslCache, tslResults,
                   tslStatus, tslOthers>>

TslEnd ==
    /\ tslStatus = "run"
    /\ tslStack = <<>>
    /\ tslCalls = <<>>
    /\ tslStatus' = "done"
    /\ UNCHANGED <<lenObjs, tslCalls, tslStack, streamLengthReferenceLookupInProgress,
                   tslCache, tslResults, tslOthers>>

\* an error returned by a call goes up through ParseIndirectObject (line
\* 250-253), parser.Trace and the calls above (lines 136-138)
TslFail(msg) ==
    /\ tslStack' = <<>>
    /\ tslResults' = Append(tslResults, msg)

\* if has && lookupInProgress: "Illegal recursive loop"
TslRecursiveLoop ==
    /\ tslStatus = "run"
    /\ tslStack # <<>>
    /\ TslTop.phase = "enter"
    /\ TslTop.num # 0
    /\ TslTop.num \in streamLengthReferenceLookupInProgress
    /\ TslFail("loop")
    /\ UNCHANGED <<lenObjs, tslCalls, streamLengthReferenceLookupInProgress, tslCache,
                   tslStatus, tslOthers>>

\* Mark lookup as in progress (for a reference only)
TslMark ==
    /\ tslStatus = "run"
    /\ tslStack # <<>>
    /\ TslTop.phase = "enter"
    /\ TslTop.num = 0 \/ TslTop.num \notin streamLengthReferenceLookupInProgress
    /\ streamLengthReferenceLookupInProgress' =
           IF TslTop.num # 0
           THEN streamLengthReferenceLookupInProgress \cup {TslTop.num}
           ELSE streamLengthReferenceLookupInProgress
    /\ tslStack' = Append(TslBelow, TslFrame(TslTop.num, "trace"))
    /\ UNCHANGED <<lenObjs, tslCalls, tslCache, tslResults, tslStatus, tslOthers>>

\* parser.Trace gives the object: a direct object, a loaded one, an integer
TslTraced ==
    /\ tslStatus = "run"
    /\ tslStack # <<>>
    /\ TslTop.phase = "trace"
    /\ IF TslTop.num = 0 \/ TslTop.num \in tslCache THEN TRUE
       ELSE lenObjs[TslTop.num].kind = "int"
    /\ tslCache' = IF TslTop.num # 0 THEN tslCache \cup {TslTop.num} ELSE tslCache
    /\ tslStack' = Append(TslBelow, TslFrame(TslTop.num, "traced"))
    /\ UNCHANGED <<lenObjs, tslCalls, streamLengthReferenceLookupInProgress, tslResults,
                   tslStatus, tslOthers>>

\* parser.Trace fails: return nil, err
TslTraceFails ==
    /\ tslStatus = "run"
    /\ tslStack # <<>>
    /\ TslTop.phase = "trace"
    /\ TslTop.num # 0
    /\ TslTop.num \notin tslCache
    /\ lenObjs[TslTop.num].kind = "bad"
    /\ TslFail("err")
    /\ UNCHANGED <<lenObjs, tslCalls, streamLengthReferenceLookupInProgress, tslCache,
                   tslStatus, tslOthers>>

\* parser.Trace loads a stream object: ParseIndirectObject looks up its Length
TslTraceStream ==
    /\ tslStatus = "run"
    /\ tslStack # <<>>
    /\ TslTop.phase = "trace"
    /\ TslTop.num # 0
    /\ TslTop.num \notin tslCache
    /\ lenObjs[TslTop.num].kind = "stream"
    /\ tslStack' = Append(Append(TslBelow, TslFrame(TslTop.num, "parsing")),
                          TslFrame(lenObjs[TslTop.num].len, "enter"))
    /\ UNCHANGED <<lenObjs, tslCalls, streamLengthReferenceLookupInProgress, tslCache,
                   tslResults, tslStatus, tslOthers>>

\* Mark as completed lookup; return slo, nil.  The stream object being
\* loaded above, if any, is loaded now.
TslReturn ==
    /\ tslStatus = "run"
    /\ tslStack # <<>>
    /\ TslTop.phase = "traced"
    /\ streamLengthReferenceLookupInProgress' =
           streamLengthReferenceLookupInProgress \ {TslTop.num}
    /\ IF TslBelow = <<>>
       THEN /\ tslStack' = <<>>
            /\ tslResults' = Append(tslResults, "ok")
            /\ UNCHANGED tslCache
       ELSE /\ tslStack' = Append(SubSeq(TslBelow, 1, Len(TslBelow) - 1),
                                  TslFrame(TslBelow[Len(TslBelow)].num, "traced"))
            /\ tslCache' = tslCache \cup {TslBelow[Len(TslBelow)].num}
            /\ UNCHANGED tslResults
    /\ UNCHANGED <<lenObjs, tslCalls, tslStatus, tslOthers>>

NextTsl ==
    \/ TslCall \/ TslEnd \/ TslRecursiveLoop \/ TslMark \/ TslTraced \/ TslTraceFails
    \/ TslTraceStream \/ TslReturn

SpecTsl == InitTsl /\ [][NextTsl]_vars

\* this step rejected a lookup as a recursive loop
TslRejected ==
    /\ Len(tslResults') = Len(tslResults) + 1
    /\ tslResults'[Len(tslResults')] = "loop"

\* C29: a reference is marked in progress only while its own lookup lasts:
\* a lookup is rejected as a recursive loop only when the same reference is
\* being looked up further out, and once the outermost traceStreamLength has
\* returned, with a value or an error, no mark is left
C29_MarkOnlyDuringLookup ==
    /\ [](tslStatus # "idle" /\ tslStack = <<>> =>
              streamLengthReferenceLookupInProgress = {})
    /\ [][TslRejected =>
              \E k \in 1..(Len(tslStack) - 1) : tslStack[k].num = TslTop.num]_vars

-----------------------------------------------------------------------------
(* The loops over the source codes of a range triple <from> <to> target in  *)
(* CMap.parseNotdefrange, parseCidrange and parseBfrange                    *)
(* (extractor/extractor.go:535-552, 639-670, 757-784).  A uint64 is kept as *)
(* its eight bytes, most significant first, so that the counter has the     *)
(* width it has in the code.                                                *)

MaxAssignments == 4

Max64 == <<255, 255, 255, 255, 255, 255, 255, 255>>

\* val <<= 8; val |= uint64(v), for every byte: the last eight bytes are left
hexToUint64(b) ==
    IF Len(b) >= 8 THEN SubSeq(b, Len(b) - 7, Len(b))
    ELSE [k \in 1..(8 - Len(b)) |-> 0] \o b

\* sc++ on a uint64: the carry runs from the last byte up and is dropped
\* past the first
RECURSIVE Inc64(_)
Inc64(u) ==
    IF u = <<>> THEN <<>>
    ELSE IF u[Len(u)] < 255
         THEN SubSeq(u, 1, Len(u) - 1) \o << u[Len(u)] + 1 >>
         ELSE Inc64(SubSeq(u, 1, Len(u) - 1)) \o << 0 >>

\* u <= w on uint64
RECURSIVE Leq64(_, _)
Leq64(u, w) ==
    IF u = <<>> THEN TRUE
    ELSE IF u[1] # w[1] THEN u[1] < w[1]
    ELSE Leq64(Tail(u), Tail(w))

\* string(r) for a rune r: its UTF-8 encoding, U+FFFD when r is no rune
RuneString(r) ==
    IF r < 128 THEN << r >>
    ELSE IF r < 2048 THEN << 192 + (r \div 64), 128 + (r % 64) >>
    ELSE IF r \in 55296..57343 \/ r > 1114111 THEN << 239, 191, 189 >>
    ELSE IF r < 65536
         THEN << 224 + (r \div 4096), 128 + ((r \div 64) % 64), 128 + (r % 64) >>
    ELSE << 240 + (r \div 262144), 128 + ((r \div 4096) % 64),
            128 + ((r \div 64) % 64), 128 + (r % 64) >>

\* fmt.Sprintf("%X", r)
RECURSIVE SprintfX(_)
SprintfX(r) ==
    LET d == r % 16
        c == IF d < 10 THEN 48 + d ELSE 55 + d
    IN  IF r < 16 THEN << c >> ELSE SprintfX(r \div 16) \o << c >>

\* what the loop stores for the value r of the target
RangeValue(section, kind, r) ==
    IF kind = "hex" THEN RuneString(r)
    ELSE IF section = "cidrange" /\ r <= 15 THEN <<48, 48, 48>> \o SprintfX(r)
    ELSE IF r <= 255 THEN <<48, 48>> \o SprintfX(r)
    ELSE IF section # "notdefrange" /\ r <= 4095 THEN <<48>> \o SprintfX(r)
    ELSE SprintfX(r)

\* the hex strings of <from> and <to>; the last is nine bytes long
RangeHexInputs ==
    { <<0>>, <<1>>, <<0, 2>>,
      <<255, 255, 255, 255, 255, 255, 255, 253>>,
      <<255, 255, 255, 255, 255, 255, 255, 254>>,
      <<255, 255, 255, 255, 255, 255, 255, 255>>,
      <<1, 255, 255, 255, 255, 255, 255, 255, 255>> }

\* the ranges the loop is run on: empty ones and ones of at most three codes
RangePairInputs ==
    { p \in RangeHexInputs \X RangeHexInputs :
        \/ ~Leq64(hexToUint64(p[1]), hexToUint64(p[2]))
        \/ hexToUint64(p[2]) \in { hexToUint64(p[1]),
                                   Inc64(hexToUint64(p[1])),
                                   Inc64(Inc64(hexToUint64(p[1]))) } }

RangeTargetInputs ==
    { [kind |-> "hex", val |-> 65], [kind |-> "hex", val |-> 20013],
      [kind |-> "int", val |-> 14], [kind |-> "int", val |-> 255],
      [kind |-> "int", val |-> 4095] }

InitRng ==
    /\ RngOthersIdle
    /\ rngSection \in {"notdefrange", "cidrange", "bfrange"}
    /\ \E p \in RangePairInputs :
          /\ srcCodeFrom = hexToUint64(p[1])
          /\ srcCodeTo = hexToUint64(p[2])
          /\ rngSc = hexToUint64(p[1])
    /\ rngTarget \in RangeTargetInputs
    /\ rngI = 0
    /\ rngCodeMap = <<>>
    /\ rngCount = 0
    /\ rngStatus = "loop"

\* for sc := srcCodeFrom; sc <= srcCodeTo; sc++ { r := target + i;
\* cmap.codeMap[sc] = ...; i++ }; a notdefrange stores the target itself
RangeAssign ==
    /\ rngStatus = "loop"
    /\ rngCount < MaxAssignments
    /\ Leq64(rngSc, srcCodeTo)
    /\ rngCodeMap' =
          (rngSc :> RangeValue(rngSection, rngTarget.kind,
                               IF rngSection = "notdefrange" THEN rngTarget.val
                               ELSE rngTarget.val + rngI))
          @@ rngCodeMap
    /\ rngI' = IF rngSection = "notdefrange" THEN rngI ELSE rngI + 1
    /\ rngSc' = Inc64(rngSc)
    /\ rngCount' = rngCount + 1
    /\ UNCHANGED <<rngSection, srcCodeFrom, srcCodeTo, rngTarget, rngStatus, rngOthers>>

\* the loop condition fails
RangeExit ==
    /\ rngStatus = "loop"
    /\ ~Leq64(rngSc, srcCodeTo)
    /\ rngStatus' = "done"
    /\ UNCHANGED <<rngSection, srcCodeFrom, srcCodeTo, rngTarget, rngSc, rngI,
                   rngCodeMap, rngCount, rngOthers>>

NextRng == RangeAssign \/ RangeExit

SpecRng == InitRng /\ [][NextRng]_vars

\* the loop is sequential code: a step that can be taken is taken
SpecRngFair == InitRng /\ [][NextRng]_vars /\ WF_vars(NextRng)

\* the source codes from..to
RECURSIVE CodesFrom(_, _)
CodesFrom(c, to) ==
    IF ~Leq64(c, to) THEN {}
    ELSE {c} \cup (IF c = Max64 THEN {} ELSE CodesFrom(Inc64(c), to))

\* C30: the loop over the source codes of a range triple ends, having
\* performed one assignment for each code of from..to and no other, also
\* when to is the largest 64-bit value
C30_RangeLoopTerminates ==
    /\ <>(rngStatus = "done")
    /\ [](rngStatus # "idle" =>
            /\ DOMAIN rngCodeMap \subseteq CodesFrom(srcCodeFrom, srcCodeTo)
            /\ rngCount <= Cardinality(CodesFrom(srcCodeFrom, srcCodeTo)))
    /\ [](rngStatus = "done" =>
            /\ DOMAIN rngCodeMap = CodesFrom(srcCodeFrom, srcCodeTo)
            /\ rngCount = Cardinality(CodesFrom(srcCodeFrom, srcCodeTo)))

-----------------------------------------------------------------------------
(* Properties of the text-assembly handler *)

LastOp == operations[Len(operations)]

\* this step fed an operation to the handler
Stepped == operations' # operations

NoRe(ops) == \A k \in 1..Len(ops) : ops[k].Operand # "re"

\* the show-string pipeline as the specification gives it, for the font found
\* under name fnt (NoFont: no Tf seen)
Pipeline(fnt, bytes) ==
    IF fnt = NoFont THEN bytes
    ELSE LET F == PageFonts[fnt]
             p == IF F.mPredefinedCmap /\ F.mToCidCmap # NilCMap
                  THEN CharcodeBytesToCidStr(F.mToCidCmap, bytes)
                  ELSE bytes
         IN  IF F.mCmap # NilCMap
             THEN CharcodeBytesToUnicode(F.mCmap, p, F.mSimpleEncodingTable,
                                         F.mPredefinedSimpleEncoding)
             ELSE IF F.mPredefinedSimpleEncoding
                  THEN Flatten([k \in 1..Len(p) |->
                                  Utf8CodepointToUtf8(F.mSimpleEncodingTable[p[k]])])
                  ELSE p

\* C3: with no re in the stream, a Tm inside BT..ET whose f is lower than the
\* tracked y position writes exactly one "\n".
C3_TmYDropNewline ==
    [][ ( /\ Stepped
          /\ LastOp'.Operand = "Tm"
          /\ inText
          /\ NoRe(operations')
          /\ yPos # -1
          /\ LastOp'.Params[6].n < yPos )
        => buf' = buf \o <<10>> ]_vars

\* the x check of a Tm that does not take the y-drop branch
C4_XCheck ==
    ( /\ Stepped
      /\ LastOp'.Operand = "Tm"
      /\ inText
      /\ ~(yPos # -1 /\ yPos > LastOp'.Params[6].n) )
    => LET e == LastOp'.Params[5].n IN
       IF xPos = -1 THEN xPos' = e /\ buf' = buf
       ELSE IF xPos < e THEN xPos' = e /\ buf' = buf \o <<9>>
       ELSE xPos' = xPos /\ buf' = buf

\* C4: on a Tm inside BT..ET that does not take the y-drop branch, an unset
\* x position (the value -1) becomes e and nothing is written; a set x position
\* below e writes one "\t" and becomes e; otherwise nothing is written and the
\* x position stays.  The x-advance scenario extracts as "A\tB".
C4_TmXCheck ==
    /\ [][C4_XCheck]_vars
    /\ []((script = ScenarioXAdvance /\ status = "done") => buf = <<65, 9, 66>>)

C4_Witness ==
    /\ script = ScenarioXAdvance
    /\ status = "done"
    /\ buf = <<65, 9, 66>>

OnlyShowOps(ops) ==
    \A k \in 1..Len(ops) : ops[k].Operand \in {"BT", "Tf", "Tj", "ET"}

\* the decoded strings of the Tj operations of ops, each decoded under the font
\* and text-object state the operations before it have set
RECURSIVE ShownByTj(_, _, _)
ShownByTj(ops, inT, fnt) ==
    IF ops = <<>> THEN <<>>
    ELSE LET op == Head(ops) IN
         CASE op.Operand = "BT" -> ShownByTj(Tail(ops), TRUE, fnt)
           [] op.Operand = "ET" -> ShownByTj(Tail(ops), FALSE, fnt)
           [] op.Operand = "Tf" ->
                ShownByTj(Tail(ops), inT,
                          IF ~inT THEN fnt
                          ELSE IF op.Params[1].nm \in DOMAIN PageFonts
                               THEN op.Params[1].nm ELSE NoFont)
           [] op.Operand = "Tj" ->
                (IF inT THEN Pipeline(fnt, op.Params[1].s) ELSE <<>>)
                    \o ShownByTj(Tail(ops), inT, fnt)
           [] OTHER -> ShownByTj(Tail(ops), inT, fnt)

\* C5: for a stream of BT, Tf, Tj and ET operations only, the text is the
\* concatenation of the decoded strings of its Tj operations, in order, with
\* no "\n" and no "\t" added.
C5_ShowOnlyConcatenates ==
    OnlyShowOps(operations) => buf = ShownByTj(operations, FALSE, NoFont)

\* a text object with two Tj under a font has been processed to the end
C5_Witness ==
    /\ OnlyShowOps(operations)
    /\ status = "done"
    /\ font # NoFont
    /\ Len(buf) >= 2
    /\ \E a, b \in 1..Len(operations) :
          /\ a < b
          /\ operations[a].Operand = "Tj"
          /\ operations[b].Operand = "Tj"

IsString(o) == o.t = "String"

\* the string operands a text-showing operation shows, in order
ShownStrings(op) ==
    CASE op.Operand \in {"Tj", "'"} -> << op.Params[1].s >>
      [] op.Operand = "\"" -> << op.Params[3].s >>
      [] op.Operand = "TJ" ->
           LET a == op.Params[1].a IN
           [k \in 1..Len(SelectSeq(a, IsString)) |-> SelectSeq(a, IsString)[k].s]

C6_ShowStep ==
    ( /\ Stepped
      /\ LastOp'.Operand \in {"Tj", "TJ", "'", "\""}
      /\ inText
      /\ status' = "run" )
    => buf' = buf
              \o (IF LastOp'.Operand \in {"'", "\""} /\ rect # preRect THEN <<10>> ELSE <<>>)
              \o Flatten([k \in 1..Len(ShownStrings(LastOp')) |->
                            Pipeline(font, ShownStrings(LastOp')[k])])

\* C6: Tj, each string of TJ, ' and " write, for the same string and font
\* state, the same text: the charcode -> CID step when the font has the
\* predefined flag and a CID CMap, then the ToUnicode CMap if there is one,
\* else the simple encoding if its flag is set, else the raw bytes; with no
\* font the raw bytes.
C6_SamePipeline == [][C6_ShowStep]_vars

\* " with three operands has shown "AB" under the predefined CJK font
C6_Witness ==
    /\ status = "run"
    /\ font = "F4"
    /\ Len(operations) > 0
    /\ LastOp.Operand = "\""
    /\ Len(LastOp.Params) = 3
    /\ buf = <<228, 184, 128, 122>>

\* this step fed a " to the handler inside BT ... ET: with fewer than three
\* operands the handler returns nil, having written at most the newline of a
\* changed rectangle; with three or more it does what ' does on the third
C28_DQuoteStep ==
    ( /\ Stepped
      /\ LastOp'.Operand = "\""
      /\ inText )
    => IF Len(LastOp'.Params) < 3
       THEN /\ status' = "run"
            /\ buf' = buf \o (IF rect # preRect THEN <<10>> ELSE <<>>)
       ELSE LET q == Handle_Quote(TextState,
                                  ContentStreamOperation("'", << LastOp'.Params[3] >>),
                                  PageFonts)
            IN  status' = q.status /\ buf' = q.buf

\* C28: the " operator never reads past its operand list: with fewer than
\* three operands the handler returns without indexing the third, and with
\* three or more it behaves like ' applied to the third operand
C28_DQuoteWithinOperands == [][C28_DQuoteStep]_vars

\* this step fed a Tm with six numbers to the handler inside BT ... ET, the y
\* position being set
TmWithYSet ==
    /\ Stepped
    /\ LastOp'.Operand = "Tm"
    /\ inText
    /\ Len(LastOp'.Params) = 6
    /\ IsNumber(LastOp'.Params[5])
    /\ IsNumber(LastOp'.Params[6])
    /\ yPos # -1

\* the step set the y position to f and ran the x check against e
YSetThenXCheck(e, g) ==
    /\ yPos' = g
    /\ IF xPos = -1 THEN xPos' = e /\ buf' = buf
       ELSE IF xPos < e THEN xPos' = e /\ buf' = buf \o <<9>>
       ELSE xPos' = xPos /\ buf' = buf

\* C20 as stated: on a Tm inside BT ... ET with the y position set, the early
\* return (write "\n", x position := e, y position := f, no x check) is taken
\* exactly when the y position is above f and the rectangle changed; in every
\* other case, a y position above f with an unchanged rectangle included, the
\* y position becomes f and the x check runs.
C20_TmEarlyReturn ==
    [][ TmWithYSet =>
          LET e == LastOp'.Params[5].n
              g == LastOp'.Params[6].n
          IN  IF yPos > g /\ RectDiffers(TextState)
              THEN xPos' = e /\ yPos' = g /\ buf' = buf \o <<10>>
              ELSE YSetThenXCheck(e, g) ]_vars

\* C20 amended: the early return is taken whenever the y position is above f:
\* the x position becomes e, the y position f, and no x check runs, so no
\* "\t" is written; the rectangle decides only whether "\n" is written.
\* Otherwise the y position becomes f and the x check runs.
C20_TmEarlyReturnOnYDrop ==
    [][ TmWithYSet =>
          LET e == LastOp'.Params[5].n
              g == LastOp'.Params[6].n
          IN  IF yPos > g
              THEN /\ xPos' = e
                   /\ yPos' = g
                   /\ buf' = IF RectDiffers(TextState) THEN buf \o <<10>> ELSE buf
              ELSE YSetThenXCheck(e, g) ]_vars

\* the second Tm went down and to the right with the rectangle unchanged:
\* nothing was written between A and B
C20_Witness ==
    /\ script = ScenarioYDropXAdvance
    /\ status = "done"
    /\ xPos = 200
    /\ yPos = 50
    /\ buf = <<65, 66>>

\* a Tf operation that names a font the page does not have
UnknownTf(op) ==
    /\ op.Operand = "Tf"
    /\ Len(op.Params) = 2
    /\ op.Params[1].t = "Name"
    /\ op.Params[1].nm \notin DOMAIN PageFonts

\* whether the k-th operation of the stream stands inside BT ... ET
RECURSIVE InTextAt(_)
InTextAt(k) ==
    IF k <= 1 THEN FALSE
    ELSE IF operations[k - 1].Operand = "BT" THEN TRUE
    ELSE IF operations[k - 1].Operand = "ET" THEN FALSE
    ELSE InTextAt(k - 1)

\* C12 as stated: every Tf that names an unknown font is the last operation
\* processed, and the stream has failed with what was written before it.
C12_UnknownFontFails ==
    \A k \in 1..Len(operations) :
        UnknownTf(operations[k]) =>
            /\ k = Len(operations)
            /\ status = "err"
            /\ ExtractText(operations, PageFonts) = [text |-> buf, err |-> TRUE, panic |-> FALSE]

\* C12 amended: the same for every such Tf inside BT ... ET; outside a text
\* object the Tf is passed over without an error.
C12_UnknownFontFailsInText ==
    \A k \in 1..Len(operations) :
        UnknownTf(operations[k]) =>
            IF InTextAt(k)
            THEN /\ k = Len(operations)
                 /\ status = "err"
                 /\ ExtractText(operations, PageFonts) =
                        [text |-> buf, err |-> TRUE, panic |-> FALSE]
            ELSE k = Len(operations) => status \in {"run", "done"}

\* text was shown, then a Tf named an unknown font and the stream failed
C12_Witness ==
    /\ status = "err"
    /\ Len(operations) > 2
    /\ UnknownTf(LastOp)
    /\ InTextAt(Len(operations))
    /\ buf # <<>>

\* the operators that may end a line
NewlineOps == {"T*", "'", "\"", "Td", "TD", "Tm"}

\* what one operation may do to the two rectangles
C19_RectStep ==
    Stepped =>
        LET op == LastOp' IN
        /\ (rect' # rect => op.Operand = "re" /\ ~inText)
        /\ (op.Operand = "re" /\ inText => TextState' = TextState)
        /\ (preRect' # preRect => op.Operand = "ET")
        /\ (op.Operand = "ET" => preRect' = rect /\ rect' = rect)
        /\ (inText /\ op.Operand # "ET" => rect' = rect /\ preRect' = preRect)
        /\ (op.Operand \in NewlineOps /\ IsPrefix(buf \o <<10>>, buf')
                => RectDiffers(TextState))

\* an re outside a text object stands after the last ET of the stream
ReSinceSnapshot ==
    \E k \in 1..Len(operations) :
        /\ operations[k].Operand = "re"
        /\ ~InTextAt(k)
        /\ \A j \in (k + 1)..Len(operations) : operations[j].Operand # "ET"

\* C19: the current rectangle changes only on an re outside BT ... ET, and an
\* re inside a text object changes nothing; the last rectangle changes only at
\* ET, where it becomes the current one; both stay as they are inside a text
\* object; and an operator that may end a line writes "\n" only when the two
\* differ, which after an ET takes an re outside text setting another
\* rectangle than the snapshot.
C19_RectangleTracking ==
    /\ [][C19_RectStep]_vars
    /\ [](RectDiffers(TextState) => ReSinceSnapshot)

\* the three text objects of the rectangle scenario: a line end after the
\* first rectangle, none after the same rectangle, one after the wider one
C19_Witness ==
    /\ script = ScenarioRects
    /\ status = "done"
    /\ buf = <<10, 65, 66, 10, 65>>

SpecCMap == InitCMap /\ [][NextCMap]_vars

\* the loops are sequential code: a step that can be taken is taken
SpecCMapFair == InitCMap /\ [][NextCMap]_vars /\ WF_vars(NextCMap)

-----------------------------------------------------------------------------
(* Properties of the decode loops *)

RECURSIVE BigEndian(_)
BigEndian(s) ==
    IF s = <<>> THEN 0 ELSE BigEndian(SubSeq(s, 1, Len(s) - 1)) * 256 + s[Len(s)]

\* the w-byte code that starts at 0-indexed position at
CodeAt(s, at, w) == BigEndian(SubSeq(s, at + 1, at + w))

SpanHasWidth(span, w) == (span \div (2 ^ w)) % 2 = 1

\* the widths at which the code starting at `at` is a key and has its width bit
MatchWidths(at) ==
    { w \in 1..4 : /\ at + w <= Len(src)
                   /\ CodeAt(src, at, w) \in DOMAIN cmap.codeMap
                   /\ SpanHasWidth(cmap.codeSpan, w) }

SetMin(S) == CHOOSE x \in S : \A y \in S : x <= y

IntMin(a, b) == IF a <= b THEN a ELSE b

\* where the loop stands after the k-th outer iteration
PosAfter(k) == IF k < Len(steps) THEN steps[k + 1].at ELSE srcI

\* C7: CharcodeBytesToUnicode emits, at each position, the target of the code
\* of the smallest width 1..4 that is a key of the code map and whose width
\* bit is set in codeSpan, and advances by exactly that width; a key at a
\* width whose bit is not set is not emitted.
C7_SmallestEnabledWidth ==
    fn = "unicode" =>
        \A k \in 1..Len(steps) :
            LET st == steps[k]
                M == MatchWidths(st.at)
            IN  /\ st.hit <=> M # {}
                /\ st.hit => /\ st.w = SetMin(M)
                             /\ st.emit = cmap.codeMap[CodeAt(src, st.at, st.w)]
                             /\ PosAfter(k) = st.at + st.w

\* a two-byte code is emitted although its first byte alone is a key, because
\* the one-byte width bit is not set
C7_Witness ==
    /\ fn = "unicode"
    /\ \E k \in 1..Len(steps) :
          /\ steps[k].hit
          /\ steps[k].w = 2
          /\ CodeAt(src, steps[k].at, 1) \in DOMAIN cmap.codeMap

\* C8 as stated: with no match at any width the loop advances by exactly one
\* byte and, when flag is false, emits nothing.
C8_AdvancesOneByte ==
    fn = "unicode" =>
        \A k \in 1..Len(steps) :
            ~steps[k].hit => /\ PosAfter(k) = steps[k].at + 1
                             /\ ~flag => steps[k].emit = <<>>

\* C8 amended: with no match at any width the loop advances past every byte it
\* examined, min(4, len(src) - i) bytes, and emits nothing when flag is false.
C8_AdvancesPastExamined ==
    fn = "unicode" =>
        \A k \in 1..Len(steps) :
            ~steps[k].hit => /\ PosAfter(k) = steps[k].at + IntMin(4, Len(src) - steps[k].at)
                             /\ ~flag => steps[k].emit = <<>>

\* an unmatched position is followed by a byte that is a valid one-byte code,
\* and the loop has gone past it
C8_Witness ==
    /\ fn = "unicode" /\ ~flag
    /\ \E k \in 1..Len(steps) :
          /\ ~steps[k].hit
          /\ steps[k].w >= 2
          /\ 1 \in MatchWidths(steps[k].at + 1)

\* the simple encoding of the bytes position `at` consumed
SimpleFallback(at, w) ==
    Flatten([x \in 1..w |-> Utf8CodepointToUtf8(SimpleEncodingTable[src[at + x]])])

\* C9: with flag true, the bytes consumed without a match are emitted through
\* the simple encoding.
C9_SimpleFallbackEmitted ==
    (fn = "unicode" /\ flag) =>
        \A k \in 1..Len(steps) :
            ~steps[k].hit => steps[k].emit = SimpleFallback(steps[k].at, steps[k].w)

C10_Safe ==
    /\ srcI <= Len(src)
    /\ dpc = "inner" => (srcJ < maxLen /\ srcI + srcJ < Len(src))
    /\ \A k \in 1..Len(steps) :
          /\ steps[k].w >= 1
          /\ steps[k].at = SeqSum([x \in 1..(k - 1) |-> steps[x].w])
          /\ PosAfter(k) = steps[k].at + steps[k].w
    /\ dpc = "done" => /\ srcI = Len(src)
                       /\ SeqSum([x \in 1..Len(steps) |-> steps[x].w]) = Len(src)

\* C10: both decode loops terminate; each outer iteration moves the position
\* forward; every byte read lies inside src; the widths consumed add up to
\* len(src).
C10_LoopsTerminate == [](C10_Safe) /\ <>(dpc = "done")

\* the cid loop has finished on an input longer than four bytes, after an
\* iteration that consumed four unmatched bytes
C10_Witness ==
    /\ dpc = "done"
    /\ fn = "cid"
    /\ Len(src) > 4
    /\ \E k \in 1..Len(steps) : ~steps[k].hit /\ steps[k].w = 4

\* the bytes a hex string stands for; none if it is no hex string
HexBytes(s) == LET d == HexDecodeString(s) IN IF d.ok THEN d.val ELSE <<>>

\* C11: CharcodeBytesToCidStr matches and advances as CharcodeBytesToUnicode
\* does, emits the hex-decoded target at a match and nothing at a position
\* with no match.
C11_CidDecodesLikeUnicode ==
    fn = "cid" =>
        \A k \in 1..Len(steps) :
            LET st == steps[k]
                M == MatchWidths(st.at)
            IN  /\ st.hit <=> M # {}
                /\ st.hit => /\ st.w = SetMin(M)
                             /\ st.emit = HexBytes(cmap.codeMap[CodeAt(src, st.at, st.w)])
                /\ ~st.hit => st.emit = <<>>

=============================================================================
